---- MODULE Spec2Model ----
(***************************************************************************)
(* A model of the incremental synchronisation engine of sync_data.py:      *)
(* main() and its worker pool, the per-page pipeline sync_page(), the      *)
(* paginated fetchers, the upserts and calculate_response_times().         *)
(*                                                                         *)
(* Python values are tagged records ([t |-> "None"], [t |-> "str", ...])   *)
(* so that None, the empty string and a non-empty string stay distinct and *)
(* Python truthiness can be modelled as the code evaluates it.  Page names *)
(* are tuples of one-character strings so that lower(), strip() and the    *)
(* substring test "in" are computed rather than assumed.                   *)
(***************************************************************************)
EXTENDS Integers, Sequences, FiniteSets, TLC

(***************************************************************************)
(* Bounds of the model.                                                    *)
(***************************************************************************)
\* Depth at which the interpreter gives up a recursion with RecursionError
\* (CPython's default limit is 1000; any finite limit gives the same result).
RecursionLimit == 4
\* Wall-clock times of messages and conversations are 0..MaxTime.
MaxTime == 1
\* Longest batch the storage specifications apply in one upsert.
MaxBatch == 2

(***************************************************************************)
(* Python values.                                                          *)
(***************************************************************************)
PyNone == [t |-> "None"]
PyStr(s) == [t |-> "str", v |-> s]
PyInt(n) == [t |-> "int", v |-> n]
\* A naive datetime (a timestamp column read back by psycopg2).
PyDt(n) == [t |-> "datetime", v |-> n]
IsNone(x) == x.t = "None"

\* bool(x): None, "" and 0 are false, a datetime is always true.
Truthy(x) ==
    CASE x.t = "None" -> FALSE
      [] x.t = "str" -> x.v # ""
      [] x.t = "int" -> x.v # 0
      [] x.t = "name" -> Len(x.v) > 0
      [] OTHER -> TRUE

(***************************************************************************)
(* Strings as character tuples: str.lower(), str.strip(), "a in b".        *)
(***************************************************************************)
UpperAlpha ==
    <<"A","B","C","D","E","F","G","H","I","J","K","L","M",
      "N","O","P","Q","R","S","T","U","V","W","X","Y","Z">>
LowerAlpha ==
    <<"a","b","c","d","e","f","g","h","i","j","k","l","m",
      "n","o","p","q","r","s","t","u","v","w","x","y","z">>

LowerChar(c) ==
    IF \E i \in 1..26 : UpperAlpha[i] = c
    THEN LowerAlpha[CHOOSE i \in 1..26 : UpperAlpha[i] = c]
    ELSE c

Lower(s) == [i \in 1..Len(s) |-> LowerChar(s[i])]

RECURSIVE LStrip(_)
LStrip(s) == IF Len(s) > 0 /\ Head(s) = " " THEN LStrip(Tail(s)) ELSE s

RECURSIVE RStrip(_)
RStrip(s) ==
    IF Len(s) > 0 /\ s[Len(s)] = " " THEN RStrip(SubSeq(s, 1, Len(s) - 1)) ELSE s

Strip(s) == RStrip(LStrip(s))

\* Python's "a in b" on strings.
Contains(a, b) ==
    \E i \in 0..(Len(b) - Len(a)) : SubSeq(b, i + 1, i + Len(a)) = a

(***************************************************************************)
(* CORE_PAGES and the name-variation table of find_page_token.             *)
(***************************************************************************)
CORE_PAGES == <<
    <<"J","u","a","n","3","6","5">>,
    <<"J","u","a","n","B","i","n","g","o">>,
    <<"J","u","a","n","3","6","5"," ","C","a","r","e","s">>,
    <<"J","u","a","n","3","6","5"," ","L","i","v","e"," ","S","t","r","e","a","m">>,
    <<"J","u","a","n","3","6","5"," ","L","i","v","e","S","t","r","e","a","m">>,
    <<"J","u","a","n","S","p","o","r","t","s">>,
    <<"J","u","a","n","3","6","5"," ","S","t","u","d","i","o","s">> >>

\* Pairs <<key, value>> of the dict "variations".
variations == <<
    << <<"j","u","a","n","c","a","r","e","s">>,
       <<"J","u","a","n","3","6","5"," ","C","a","r","e","s">> >>,
    << <<"j","u","a","n","3","6","5"," ","c","a","r","e","s">>,
       <<"J","u","a","n","3","6","5"," ","C","a","r","e","s">> >>,
    << <<"j","u","a","n","b","i","n","g","o">>,
       <<"J","u","a","n","B","i","n","g","o">> >>,
    << <<"j","u","a","n","s","p","o","r","t","s">>,
       <<"J","u","a","n","S","p","o","r","t","s">> >>,
    << <<"j","u","a","n","3","6","5"," ","l","i","v","e","s","t","r","e","a","m">>,
       <<"J","u","a","n","3","6","5"," ","L","i","v","e","S","t","r","e","a","m">> >>,
    << <<"j","u","a","n","3","6","5"," ","l","i","v","e"," ","s","t","r","e","a","m">>,
       <<"J","u","a","n","3","6","5"," ","L","i","v","e"," ","S","t","r","e","a","m">> >> >>

\* is_core of main(): some core name contains the page name or is contained in it.
IsCore(page_name) ==
    \E i \in 1..Len(CORE_PAGES) :
        \/ Contains(Lower(CORE_PAGES[i]), Lower(page_name))
        \/ Contains(Lower(page_name), Lower(CORE_PAGES[i]))

(***************************************************************************)
(* find_page_token.  tokens is the dict of tokens.json as the sequence of  *)
(* its items <<key, token_data>>; token_data is a record whose page_name   *)
(* and token are PyNone when the key is missing.  The result is tagged:    *)
(* "data" (an entry), "None", or "RecursionError" when the recursion       *)
(* through the variation table never ends.                                 *)
(***************************************************************************)
\* token_data.get("page_name", "").lower().strip()
EntryPageName(token_data) ==
    IF IsNone(token_data.page_name) THEN <<>>
    ELSE Strip(Lower(token_data.page_name.v))

\* The for loop: the index of the first item that matches, 0 when none does.
FirstMatch(tokens, page_name_lower) ==
    LET hits == {i \in 1..Len(tokens) :
                    \/ Strip(Lower(tokens[i][1])) = page_name_lower
                    \/ EntryPageName(tokens[i][2]) = page_name_lower}
    IN IF hits = {} THEN 0 ELSE CHOOSE i \in hits : \A j \in hits : i <= j

VariationOf(page_name_lower) ==
    LET hits == {i \in 1..Len(variations) : variations[i][1] = page_name_lower}
    IN IF hits = {} THEN <<>> ELSE variations[CHOOSE i \in hits : TRUE][2]

RECURSIVE FindPageTokenAt(_, _, _)
FindPageTokenAt(tokens, page_name, depth) ==
    LET page_name_lower == Strip(Lower(page_name))
        hit == FirstMatch(tokens, page_name_lower)
    IN IF depth > RecursionLimit THEN [t |-> "RecursionError"]
       ELSE IF hit # 0 THEN [t |-> "data", v |-> tokens[hit][2]]
       ELSE IF \E i \in 1..Len(variations) : variations[i][1] = page_name_lower
            THEN FindPageTokenAt(tokens, VariationOf(page_name_lower), depth + 1)
       ELSE PyNone

find_page_token(tokens, page_name) == FindPageTokenAt(tokens, page_name, 1)

(***************************************************************************)
(* Timestamps.  The platform sends a timestamp as text; Python parses it   *)
(* with datetime.fromisoformat after normalising the UTC suffix, and the   *)
(* database casts it on INSERT into a timestamp column.  A text is         *)
(* [form |-> "iso", wall |-> n] (wall-clock time n), [form |-> "garbage"]  *)
(* (not a timestamp for either parser) or [form |-> "empty"].              *)
(***************************************************************************)
IsoText(n) == [t |-> "str", form |-> "iso", wall |-> n]
GarbageText == [t |-> "str", form |-> "garbage", wall |-> 0]
EmptyText == [t |-> "str", form |-> "empty", wall |-> 0]

\* bool(conv_updated) for a timestamp text or None.
TextTruthy(x) == ~IsNone(x) /\ x.form # "empty"

\* datetime.fromisoformat(s.replace('Z', '+00:00').replace('+0000', '+00:00'))
\* followed by .replace(tzinfo=None): the wall-clock time, or ValueError.
FromIsoFormat(x) ==
    IF x.form = "iso" THEN [ok |-> TRUE, v |-> x.wall] ELSE [ok |-> FALSE, v |-> 0]

\* The cast of an inserted value to a timestamp column: NULL for None, the
\* wall-clock time of a timestamp text, an error otherwise.
PgTimestamp(x) ==
    IF IsNone(x) THEN [ok |-> TRUE, v |-> PyNone]
    ELSE IF x.form = "iso" THEN [ok |-> TRUE, v |-> PyDt(x.wall)]
    ELSE [ok |-> FALSE, v |-> PyNone]

(***************************************************************************)
(* Tables.  conversations and messages are functions from the unique key   *)
(* (conversation_id, message_id) to the row; the domain is the set of      *)
(* stored keys.                                                            *)
(***************************************************************************)
Range(s) == {s[i] : i \in DOMAIN s}

\* f with the row of key k set to r (inserted when k is not stored).
Put(f, k, r) == [x \in DOMAIN f \cup {k} |-> IF x = k THEN r ELSE f[x]]

\* One INSERT ... ON CONFLICT DO UPDATE statement cannot touch a row twice,
\* and every timestamp must be castable; otherwise the statement fails.
Writable(keys, stamps) ==
    /\ \A i, j \in DOMAIN keys : i # j => keys[i] # keys[j]
    /\ \A i \in DOMAIN stamps : PgTimestamp(stamps[i]).ok

(***************************************************************************)
(* upsert_conversations.                                                   *)
(***************************************************************************)
\* The first participant that is not the page itself, or None.
OtherParticipant(page_id, participants) ==
    LET hits == {i \in 1..Len(participants) : participants[i].id # page_id}
    IN IF hits = {} THEN [id |-> PyNone, name |-> PyNone]
       ELSE LET p == participants[CHOOSE i \in hits : \A j \in hits : i <= j]
            IN [id |-> PyStr(p.id), name |-> p.name]

\* conv.get("message_count", 0)
MessageCountOf(conv) == IF IsNone(conv.message_count) THEN 0 ELSE conv.message_count.v

ConversationValues(page_id, conversations) ==
    [i \in 1..Len(conversations) |->
        LET conv == conversations[i]
            p == OtherParticipant(page_id, conv.participants)
        IN [conversation_id |-> conv.id,
            page_id |-> page_id,
            participant_id |-> p.id,
            participant_name |-> p.name,
            updated_time |-> conv.updated_time,
            message_count |-> MessageCountOf(conv)]]

\* A faulty variant of MergeConversation: the conflict branch adds the
\* fetched message_count to the stored one.
MergeConversationFaulty(table, v) ==
    IF v.conversation_id \in DOMAIN table
    THEN Put(table, v.conversation_id,
             [table[v.conversation_id] EXCEPT
                 !.updated_time = PgTimestamp(v.updated_time).v,
                 !.message_count = @ + v.message_count,
                 !.participant_name = v.participant_name])
    ELSE Put(table, v.conversation_id,
             [page_id |-> v.page_id,
              participant_id |-> v.participant_id,
              participant_name |-> v.participant_name,
              updated_time |-> PgTimestamp(v.updated_time).v,
              message_count |-> v.message_count])

\* INSERT one row, or on a stored key refresh updated_time, message_count
\* and participant_name.
MergeConversation(table, v) ==
    IF v.conversation_id \in DOMAIN table
    THEN Put(table, v.conversation_id,
             [table[v.conversation_id] EXCEPT
                 !.updated_time = PgTimestamp(v.updated_time).v,
                 !.message_count = v.message_count,
                 !.participant_name = v.participant_name])
    ELSE Put(table, v.conversation_id,
             [page_id |-> v.page_id,
              participant_id |-> v.participant_id,
              participant_name |-> v.participant_name,
              updated_time |-> PgTimestamp(v.updated_time).v,
              message_count |-> v.message_count])

RECURSIVE MergeConversations(_, _)
MergeConversations(table, values) ==
    IF values = <<>> THEN table
    ELSE MergeConversations(MergeConversation(table, Head(values)), Tail(values))

\* The call: the table afterwards and the returned row count.  dbOk is the
\* database's answer to the statement and the commit; a failure is rolled
\* back and 0 is returned.
upsert_conversations(table, page_id, conversations, dbOk) ==
    IF conversations = <<>> THEN [table |-> table, ret |-> 0, failed |-> FALSE]
    ELSE LET values == ConversationValues(page_id, conversations)
             keys == [i \in DOMAIN values |-> values[i].conversation_id]
             stamps == [i \in DOMAIN values |-> values[i].updated_time]
         IN IF dbOk /\ Writable(keys, stamps)
            THEN [table |-> MergeConversations(table, values),
                  ret |-> Len(values), failed |-> FALSE]
            ELSE [table |-> table, ret |-> 0, failed |-> TRUE]

(***************************************************************************)
(* upsert_messages.                                                        *)
(***************************************************************************)
\* msg.get("from", {}) and its .get("id"), .get("name")
FromUser(msg) ==
    IF IsNone(msg.from) THEN [t |-> "dict", id |-> PyNone, name |-> PyNone] ELSE msg.from

\* str(from_user.get("id")) == str(page_id)
IsFromPage(msg, page_id) == ~IsNone(FromUser(msg).id) /\ FromUser(msg).id.v = page_id

\* msg.get("message", "")
MessageTextOf(msg) == IF IsNone(msg.message) THEN PyStr("") ELSE msg.message

MessageValues(page_id, conversation_id, messages) ==
    [i \in 1..Len(messages) |->
        LET msg == messages[i]
        IN [message_id |-> msg.id,
            conversation_id |-> conversation_id,
            page_id |-> page_id,
            sender_id |-> FromUser(msg).id,
            sender_name |-> FromUser(msg).name,
            message_text |-> MessageTextOf(msg),
            message_time |-> msg.created_time,
            is_from_page |-> IsFromPage(msg, page_id)]]

\* A faulty variant of MergeMessage: the conflict branch also overwrites the
\* sender id and the direction flag.
MergeMessageFaulty(table, v) ==
    IF v.message_id \in DOMAIN table
    THEN Put(table, v.message_id,
             [table[v.message_id] EXCEPT
                 !.message_text = v.message_text,
                 !.message_time = PgTimestamp(v.message_time).v,
                 !.sender_name = v.sender_name,
                 !.sender_id = v.sender_id,
                 !.is_from_page = v.is_from_page])
    ELSE Put(table, v.message_id,
             [conversation_id |-> v.conversation_id,
              page_id |-> v.page_id,
              sender_id |-> v.sender_id,
              sender_name |-> v.sender_name,
              message_text |-> v.message_text,
              message_time |-> PgTimestamp(v.message_time).v,
              is_from_page |-> v.is_from_page,
              response_time_seconds |-> PyNone])

\* INSERT one row (response_time_seconds is not in the column list and
\* starts NULL), or on a stored key refresh message_text, message_time and
\* sender_name.
MergeMessage(table, v) ==
    IF v.message_id \in DOMAIN table
    THEN Put(table, v.message_id,
             [table[v.message_id] EXCEPT
                 !.message_text = v.message_text,
                 !.message_time = PgTimestamp(v.message_time).v,
                 !.sender_name = v.sender_name])
    ELSE Put(table, v.message_id,
             [conversation_id |-> v.conversation_id,
              page_id |-> v.page_id,
              sender_id |-> v.sender_id,
              sender_name |-> v.sender_name,
              message_text |-> v.message_text,
              message_time |-> PgTimestamp(v.message_time).v,
              is_from_page |-> v.is_from_page,
              response_time_seconds |-> PyNone])

RECURSIVE MergeMessages(_, _)
MergeMessages(table, values) ==
    IF values = <<>> THEN table
    ELSE MergeMessages(MergeMessage(table, Head(values)), Tail(values))

\* A faulty variant of upsert_messages: a failed batch leaves its first row
\* behind.
upsert_messages_faulty(table, page_id, conversation_id, messages, dbOk) ==
    IF messages = <<>> THEN [table |-> table, ret |-> 0, failed |-> FALSE]
    ELSE LET values == MessageValues(page_id, conversation_id, messages)
             keys == [i \in DOMAIN values |-> values[i].message_id]
             stamps == [i \in DOMAIN values |-> values[i].message_time]
         IN IF dbOk /\ Writable(keys, stamps)
            THEN [table |-> MergeMessages(table, values),
                  ret |-> Len(values), failed |-> FALSE]
            ELSE [table |-> IF PgTimestamp(stamps[1]).ok
                            THEN MergeMessage(table, values[1]) ELSE table,
                  ret |-> 0, failed |-> TRUE]

\* The call: a failure of the statement or of the commit is rolled back
\* and 0 is returned.
upsert_messages(table, page_id, conversation_id, messages, dbOk) ==
    IF messages = <<>> THEN [table |-> table, ret |-> 0, failed |-> FALSE]
    ELSE LET values == MessageValues(page_id, conversation_id, messages)
             keys == [i \in DOMAIN values |-> values[i].message_id]
             stamps == [i \in DOMAIN values |-> values[i].message_time]
         IN IF dbOk /\ Writable(keys, stamps)
            THEN [table |-> MergeMessages(table, values),
                  ret |-> Len(values), failed |-> FALSE]
            ELSE [table |-> table, ret |-> 0, failed |-> TRUE]

(***************************************************************************)
(* calculate_response_times.                                               *)
(***************************************************************************)
MessagesOf(table, conversation_id) ==
    {m \in DOMAIN table : table[m].conversation_id = conversation_id}

\* ORDER BY message_time ASC: NULLs come last, and rows with equal
\* message_time come in an order the database is free to choose.
InTimeOrder(table, a, b) ==
    \/ IsNone(table[b].message_time)
    \/ /\ ~IsNone(table[a].message_time)
       /\ table[a].message_time.v <= table[b].message_time.v

\* Every order in which the SELECT may return the conversation's rows.
ReadOrders(table, conversation_id) ==
    LET ids == MessagesOf(table, conversation_id)
        n == Cardinality(ids)
    IN {o \in [1..n -> ids] :
            /\ \A i, j \in 1..n : i # j => o[i] # o[j]
            /\ \A i, j \in 1..n : i < j => InTimeOrder(table, o[i], o[j])}

\* A faulty variant of ScanFrom: a reply consumes the anchor.
RECURSIVE ScanFromFaulty(_, _, _, _)
ScanFromFaulty(table, order, i, last_user_msg_time) ==
    IF i > Len(order) THEN <<>>
    ELSE LET row == table[order[i]]
         IN IF ~row.is_from_page
            THEN ScanFromFaulty(table, order, i + 1, row.message_time)
            ELSE IF ~IsNone(last_user_msg_time)
                    /\ Truthy(row.message_time) /\ Truthy(last_user_msg_time)
                    /\ row.message_time.v - last_user_msg_time.v > 0
            THEN <<[msg_id |-> order[i],
                    response_seconds |-> row.message_time.v - last_user_msg_time.v]>>
                 \o ScanFromFaulty(table, order, i + 1, PyNone)
            ELSE ScanFromFaulty(table, order, i + 1, last_user_msg_time)

\* The for loop over the rows from position i on with the anchor
\* last_user_msg_time: the list "updates".
RECURSIVE ScanFrom(_, _, _, _)
ScanFrom(table, order, i, last_user_msg_time) ==
    IF i > Len(order) THEN <<>>
    ELSE LET row == table[order[i]]
         IN IF ~row.is_from_page
            THEN ScanFrom(table, order, i + 1, row.message_time)
            ELSE IF ~IsNone(last_user_msg_time)
                    /\ Truthy(row.message_time) /\ Truthy(last_user_msg_time)
                    /\ row.message_time.v - last_user_msg_time.v > 0
            THEN <<[msg_id |-> order[i],
                    response_seconds |-> row.message_time.v - last_user_msg_time.v]>>
                 \o ScanFrom(table, order, i + 1, last_user_msg_time)
            ELSE ScanFrom(table, order, i + 1, last_user_msg_time)

\* The UPDATE statements, in the order of "updates".
RECURSIVE ApplyUpdates(_, _)
ApplyUpdates(table, updates) ==
    IF updates = <<>> THEN table
    ELSE ApplyUpdates(
            [table EXCEPT ![Head(updates).msg_id].response_time_seconds =
                              PyInt(Head(updates).response_seconds)],
            Tail(updates))

\* The messages table after the call, when the SELECT returned the rows in
\* the order "order".
calculate_response_times(table, order) ==
    IF Len(order) < 2 THEN table
    ELSE ApplyUpdates(table, ScanFrom(table, order, 1, PyNone))

(***************************************************************************)
(* The paginated fetchers.  What the platform answers to one query is a    *)
(* script: the sequence of its answers to the successive page requests,    *)
(* each a page of data (with a continuation link unless it is the last of  *)
(* the script), an {error: ...} payload, or a transport failure.           *)
(***************************************************************************)
DataPage(items) == [kind |-> "data", data |-> items, message |-> PyNone]
ErrorPayload(message) == [kind |-> "error", data |-> <<>>, message |-> message]
TransportFailure == [kind |-> "transport", data |-> <<>>, message |-> PyNone]

\* data['error'].get('message', 'Unknown error')
ErrorMessageOf(page) ==
    IF IsNone(page.message) THEN PyStr("Unknown error") ELSE page.message

\* str(e) of a requests exception.
TransportMessage == PyStr("ConnectionError")

\* A faulty variant of FetchConversationsFrom: a continuation link is
\* followed without a rate_limiter.wait().
RECURSIVE FetchConversationsFromFaulty(_, _, _, _, _)
FetchConversationsFromFaulty(script, i, collected, waits, reqs) ==
    LET page == script[i]
    IN IF page.kind = "transport"
       THEN [items |-> <<>>, error |-> TransportMessage,
             waits |-> waits, requests |-> reqs + 1]
       ELSE IF page.kind = "error"
       THEN [items |-> <<>>, error |-> ErrorMessageOf(page),
             waits |-> waits, requests |-> reqs + 1]
       ELSE IF i < Len(script)
       THEN FetchConversationsFromFaulty(script, i + 1, collected \o page.data,
                                         waits, reqs + 1)
       ELSE [items |-> collected \o page.data, error |-> PyNone,
             waits |-> waits, requests |-> reqs + 1]

\* The while loop of fetch_conversations at the request for page i, with
\* the conversations collected so far: the returned (conversations, error)
\* and the numbers of rate_limiter.wait() calls and of requests made.
RECURSIVE FetchConversationsFrom(_, _, _, _, _)
FetchConversationsFrom(script, i, collected, waits, reqs) ==
    LET page == script[i]
    IN IF page.kind = "transport"
       THEN [items |-> <<>>, error |-> TransportMessage,
             waits |-> waits, requests |-> reqs + 1]
       ELSE IF page.kind = "error"
       THEN [items |-> <<>>, error |-> ErrorMessageOf(page),
             waits |-> waits, requests |-> reqs + 1]
       ELSE IF i < Len(script)
       THEN FetchConversationsFrom(script, i + 1, collected \o page.data,
                                   waits + 1, reqs + 1)
       ELSE [items |-> collected \o page.data, error |-> PyNone,
             waits |-> waits, requests |-> reqs + 1]

fetch_conversations(script) == FetchConversationsFrom(script, 1, <<>>, 1, 0)

\* A faulty variant of FetchMessagesFrom: a failure drops the messages of
\* the pages already fetched.
RECURSIVE FetchMessagesFromFaulty(_, _, _, _, _)
FetchMessagesFromFaulty(script, i, collected, waits, reqs) ==
    LET page == script[i]
    IN IF page.kind = "transport" \/ page.kind = "error"
       THEN [items |-> <<>>, waits |-> waits, requests |-> reqs + 1]
       ELSE IF i < Len(script)
       THEN FetchMessagesFromFaulty(script, i + 1, collected \o page.data,
                                    waits + 1, reqs + 1)
       ELSE [items |-> collected \o page.data, waits |-> waits, requests |-> reqs + 1]

\* The while loop of fetch_messages: an error payload breaks the loop and a
\* transport failure is passed over; both return what was collected.
RECURSIVE FetchMessagesFrom(_, _, _, _, _)
FetchMessagesFrom(script, i, collected, waits, reqs) ==
    LET page == script[i]
    IN IF page.kind = "transport" \/ page.kind = "error"
       THEN [items |-> collected, waits |-> waits, requests |-> reqs + 1]
       ELSE IF i < Len(script)
       THEN FetchMessagesFrom(script, i + 1, collected \o page.data,
                              waits + 1, reqs + 1)
       ELSE [items |-> collected \o page.data, waits |-> waits, requests |-> reqs + 1]

fetch_messages(script) == FetchMessagesFrom(script, 1, <<>>, 1, 0)

(***************************************************************************)
(* get_existing_conversations and the change-detection filter of           *)
(* sync_page.                                                              *)
(***************************************************************************)
\* {conversation_id: updated_time} of the page's stored conversations.
get_existing_conversations(table, page_id) ==
    LET ids == {c \in DOMAIN table : table[c].page_id = page_id}
    IN [c \in ids |-> table[c].updated_time]

\* existing_convos.get(conv_id)
ExistingUpdated(existing, conv_id) ==
    IF conv_id \in DOMAIN existing THEN existing[conv_id] ELSE PyNone

\* A faulty variant of NeedsMessages: a conversation whose fetched
\* timestamp equals the stored one is fetched again.
NeedsMessagesFaulty(existing_updated, conv_updated) ==
    IF IsNone(existing_updated) THEN TRUE
    ELSE IF TextTruthy(conv_updated)
    THEN LET conv_dt == FromIsoFormat(conv_updated)
             existing_dt == IF existing_updated.t = "str"
                            THEN FromIsoFormat(existing_updated)
                            ELSE [ok |-> TRUE, v |-> existing_updated.v]
         IN IF conv_dt.ok /\ existing_dt.ok
            THEN conv_dt.v >= existing_dt.v
            ELSE TRUE
    ELSE TRUE

\* The body of the filter loop for one fetched conversation: TRUE when the
\* conversation goes to changed_conversations, FALSE when it is counted in
\* conversations_skipped.
NeedsMessages(existing_updated, conv_updated) ==
    IF IsNone(existing_updated) THEN TRUE
    ELSE IF TextTruthy(conv_updated)
    THEN LET conv_dt == FromIsoFormat(conv_updated)
             existing_dt == IF existing_updated.t = "str"
                            THEN FromIsoFormat(existing_updated)
                            ELSE [ok |-> TRUE, v |-> existing_updated.v]
         IN IF conv_dt.ok /\ existing_dt.ok
            THEN conv_dt.v > existing_dt.v
            ELSE TRUE
    ELSE TRUE

changed_conversations(existing, conversations) ==
    LET Changed(conv) ==
            NeedsMessages(ExistingUpdated(existing, conv.id), conv.updated_time)
    IN SelectSeq(conversations, Changed)

\* A faulty variant of conversations_skipped: every conversation that has a
\* stored row is counted, changed or not.
conversations_skipped_faulty(existing, conversations) ==
    Cardinality({k \in DOMAIN conversations : conversations[k].id \in DOMAIN existing})

\* result["conversations_skipped"]: the iterations of the filter loop that
\* did not append to changed_conversations.
conversations_skipped(existing, conversations) ==
    Len(conversations) - Len(changed_conversations(existing, conversations))

(***************************************************************************)
(* State.                                                                  *)
(***************************************************************************)
VARIABLES
    tokens_file,    \* tokens.json: the items <<key, token_data>> of the dict
    status_file,    \* sync_status.json: page_id -> cursor record
    db_pages,       \* the pages table: <<page_id, page_name>> rows
    convTable,      \* the conversations table
    msgTable,       \* the messages table
    mainPc,         \* where main() is
    sync_status,    \* main()'s in-memory copy of the cursor store
    pages_to_sync,  \* main()'s list of pages to dispatch
    task,           \* page_id -> the state of that page's sync_page() call
    results,        \* main()'s list of result records
    call_count,     \* rate_limiter.call_count
    requests,       \* page_id -> number of HTTP requests issued for the page
    clock,          \* datetime.now(), in days
    prep_i,         \* main()'s position in the loop over db_pages
    summary,        \* the totals and errors main() logs at the end
    status_loaded,  \* the cursor store as load_sync_status() returned it
    driver,         \* which storage function a storage-level behaviour drives
    last_call,      \* the last storage call made: what it was and what it did
    time_now,       \* time.time(), in milliseconds
    waiters,        \* worker -> where it is in rate_limiter.wait(), and the
                    \* times at which its calls of wait() returned
    recalc,         \* recalculate_all_response_times(): the conversations
                    \* still to process and those processed
    runs,           \* overlapping runs of main(): run -> where it is and its
                    \* in-memory copy of the cursor store
    previous,       \* the pipelines of the earlier runs, one map per run
    store_log       \* the reads and writes of sync_status.json made by the run

vars == <<tokens_file, status_file, db_pages, convTable, msgTable, mainPc,
          sync_status, pages_to_sync, task, results, call_count, requests,
          clock, prep_i, summary, status_loaded, driver, last_call,
          time_now, waiters, recalc, runs, previous, store_log>>

runVars == <<tokens_file, status_file, db_pages, mainPc, sync_status,
             pages_to_sync, task, results, call_count, requests, clock,
             prep_i, summary, status_loaded>>

EmptyTable == [k \in {} |-> PyNone]

\* The limiter and the maintenance mode at rest, a single first run.
auxVars == <<time_now, waiters, recalc, runs, previous, store_log>>
NoRecalc == [todo |-> <<>>, done |-> <<>>]
AuxIdle ==
    /\ time_now = 0
    /\ waiters = EmptyTable
    /\ recalc = NoRecalc
    /\ runs = EmptyTable
    /\ previous = <<>>
    /\ store_log = <<>>

NoSummary == [total_convs |-> 0, total_msgs |-> 0, total_skipped |-> 0, errors |-> <<>>]

NoCall == [fn |-> "none", conv |-> "", ret |-> 0, changed |-> FALSE]

(***************************************************************************)
(* Storage-level behaviours: the three storage functions applied, in any   *)
(* order and any number of times, to fetched batches drawn from bounded    *)
(* sets.                                                                   *)
(***************************************************************************)
Times == 0..MaxTime

PagePerson == [t |-> "dict", id |-> PyStr("p1"), name |-> PyStr("Juan365")]
UserPerson == [t |-> "dict", id |-> PyStr("u1"), name |-> PyStr("Ann")]

\* Fetched message objects of conversation c1: ma and mc are written by the
\* user, mb by the page; ma is also seen edited (another text, and another
\* sender name).
StampsIn == {IsoText(n) : n \in Times} \cup {PyNone}

UserRenamed == [t |-> "dict", id |-> PyStr("u1"), name |-> PyStr("Ann B.")]

MessageObjects ==
    {[id |-> "ma", from |-> UserPerson, message |-> PyStr("hi"), created_time |-> s] :
        s \in StampsIn}
    \cup {[id |-> "ma", from |-> UserRenamed, message |-> PyStr("hi!"),
           created_time |-> IsoText(MaxTime)]}
    \cup {[id |-> "mb", from |-> PagePerson, message |-> PyStr("hello"),
           created_time |-> s] : s \in StampsIn}
    \cup {[id |-> "mc", from |-> UserPerson, message |-> PyNone,
           created_time |-> IsoText(MaxTime)]}

SeqsUpTo(S, n) == UNION {[1..k -> S] : k \in 1..n}

MessageBatches ==
    SeqsUpTo(MessageObjects, MaxBatch)
    \cup {<<[id |-> "ma", from |-> UserPerson, message |-> PyStr("hi"),
            created_time |-> GarbageText]>>}

\* The messages [in@0, out@5, out@9, in@20, out@25] of conversation cx.
ExampleBatch == <<
    [id |-> "x1", from |-> UserPerson, message |-> PyStr("q1"), created_time |-> IsoText(0)],
    [id |-> "x2", from |-> PagePerson, message |-> PyStr("a1"), created_time |-> IsoText(5)],
    [id |-> "x3", from |-> PagePerson, message |-> PyStr("a2"), created_time |-> IsoText(9)],
    [id |-> "x4", from |-> UserPerson, message |-> PyStr("q2"), created_time |-> IsoText(20)],
    [id |-> "x5", from |-> PagePerson, message |-> PyStr("a3"), created_time |-> IsoText(25)] >>

\* Fetched conversation objects of page p1.
ConversationObjects ==
    {[id |-> "c1",
      participants |-> << [id |-> "p1", name |-> PyStr("Juan365")],
                          [id |-> "u1", name |-> PyStr("Ann")] >>,
      updated_time |-> s, message_count |-> n] :
        s \in StampsIn, n \in {PyNone, PyInt(2)}}
    \cup {[id |-> "c1",
           participants |-> << [id |-> "u1", name |-> PyStr("Ann B.")],
                               [id |-> "p1", name |-> PyStr("Juan365")] >>,
           updated_time |-> IsoText(MaxTime), message_count |-> PyInt(3)],
          [id |-> "c1",
           participants |-> << [id |-> "p1", name |-> PyStr("Juan365")] >>,
           updated_time |-> PyNone, message_count |-> PyNone]}
    \cup {[id |-> "c2", participants |-> << [id |-> "u2", name |-> PyStr("Bob")] >>,
           updated_time |-> s, message_count |-> PyInt(1)] :
             s \in {IsoText(0), GarbageText}}

ConversationBatches == SeqsUpTo(ConversationObjects, MaxBatch)

InitStore ==
    /\ tokens_file = <<>>
    /\ status_file = EmptyTable
    /\ db_pages = <<>>
    /\ convTable = EmptyTable
    /\ msgTable = EmptyTable
    /\ mainPc = "idle"
    /\ sync_status = EmptyTable
    /\ pages_to_sync = <<>>
    /\ task = EmptyTable
    /\ results = <<>>
    /\ call_count = 0
    /\ requests = EmptyTable
    /\ clock = 0
    /\ prep_i = 0
    /\ summary = NoSummary
    /\ status_loaded = EmptyTable
    /\ driver \in {"conversations", "messages", "example"}
    /\ last_call = NoCall
    /\ AuxIdle

\* upsert_conversations(conn, "p1", batch)
StoreUpsertConversations ==
    /\ driver = "conversations"
    /\ \E batch \in ConversationBatches, dbOk \in BOOLEAN :
        LET r == upsert_conversations(convTable, "p1", batch, dbOk)
        IN /\ convTable' = r.table
           /\ last_call' = [fn |-> "upsert_conversations", conv |-> "",
                            ret |-> r.ret, changed |-> r.table # convTable]
    /\ UNCHANGED <<msgTable, driver>>
    /\ UNCHANGED runVars
    /\ UNCHANGED auxVars

\* The conversation and the batches a behaviour works on.
DrivenConversation == IF driver = "example" THEN "cx" ELSE "c1"
DrivenBatches == IF driver = "example" THEN {ExampleBatch} ELSE MessageBatches

\* upsert_messages(conn, "p1", conversation_id, batch)
StoreUpsertMessages ==
    /\ driver \in {"messages", "example"}
    /\ \E batch \in DrivenBatches, dbOk \in BOOLEAN :
        LET r == upsert_messages(msgTable, "p1", DrivenConversation, batch, dbOk)
        IN /\ msgTable' = r.table
           /\ last_call' = [fn |-> "upsert_messages", conv |-> DrivenConversation,
                            ret |-> r.ret, changed |-> r.table # msgTable]
    /\ UNCHANGED <<convTable, driver>>
    /\ UNCHANGED runVars
    /\ UNCHANGED auxVars

\* calculate_response_times(conn, conversation_id)
StoreCalculate ==
    /\ driver \in {"messages", "example"}
    /\ \E order \in ReadOrders(msgTable, DrivenConversation) :
        LET after == calculate_response_times(msgTable, order)
        IN /\ msgTable' = after
           /\ last_call' = [fn |-> "calculate_response_times",
                            conv |-> DrivenConversation,
                            ret |-> 0, changed |-> after # msgTable]
    /\ UNCHANGED <<convTable, driver>>
    /\ UNCHANGED runVars
    /\ UNCHANGED auxVars

NextStore == StoreUpsertConversations \/ StoreUpsertMessages \/ StoreCalculate

SpecStore == InitStore /\ [][NextStore]_vars

(***************************************************************************)
(* A run of main(): the environment it starts in.                          *)
(***************************************************************************)
MAX_WORKERS == 10
FIRST_RUN_DAYS == 7
SUBSEQUENT_RUN_DAYS == 2

\* datetime.now() when the run starts, in days.
StartClock == 10

AcmeShop == <<"A","c","m","e"," ","S","h","o","p">>
BingoKey == <<"b","i","n","g","o","-","m","a","i","n">>
BingoPadded == <<" ","J","u","a","n","B","i","n","g","o"," ">>

PageName(chars) == [t |-> "name", v |-> chars]

\* The pages table: two core pages and one that is not.
Pages == << <<"p1", CORE_PAGES[1]>>, <<"p2", CORE_PAGES[2]>>, <<"p3", AcmeShop>> >>

Juan365Entry(token) == <<CORE_PAGES[1], [page_name |-> PageName(CORE_PAGES[1]), token |-> token]>>
\* An entry found through its page_name, not its key.
BingoEntry == <<BingoKey, [page_name |-> PageName(BingoPadded), token |-> PyStr("tokB")]>>
\* The same entry without its "token" key.
BingoEntryNoToken == <<BingoKey, [page_name |-> PageName(BingoPadded), token |-> PyNone]>>

\* The contents tokens.json may have.
TokenFiles ==
    { <<>>,
      << Juan365Entry(PyStr("tokA")), BingoEntry >>,
      << Juan365Entry(PyStr("tokA")) >>,
      << BingoEntry >>,
      << Juan365Entry(PyStr("")), BingoEntry >>,
      << Juan365Entry(PyNone), BingoEntryNoToken >> }

IsoTime(n) == [t |-> "isotime", v |-> n]

OldCursor == [last_sync |-> IsoTime(StartClock - 1), conversations |-> 1, messages |-> 1]

\* The contents sync_status.json may have: nothing, or the cursors of p1 and
\* of a page that is no longer synced.
StatusFiles ==
    { EmptyTable, [k \in {"p1", "p0"} |-> OldCursor] }

StoredConversation(page_id, stamp) ==
    [page_id |-> page_id, participant_id |-> PyStr("u1"),
     participant_name |-> PyStr("Ann"), updated_time |-> stamp, message_count |-> 1]

\* The conversations table earlier runs may have left.
InitialConversationTables ==
    { EmptyTable }
    \cup { [k \in {"c1"} |-> StoredConversation("p1", PyDt(n))] : n \in Times }

\* What the platform may answer.
FetchedStamps == {IsoText(n) : n \in Times} \cup {PyNone, EmptyText, GarbageText}

FetchedConversation(id, user, stamp) ==
    [id |-> id,
     participants |-> << [id |-> "p1", name |-> PyStr("Juan365")],
                         [id |-> user, name |-> PyStr("Ann")] >>,
     updated_time |-> stamp, message_count |-> PyInt(2)]

\* One page more than the pool has workers, each with its token; the
\* platform has no conversation of these pages in the window.
PoolIds == <<"q01", "q02", "q03", "q04", "q05", "q06", "q07", "q08", "q09", "q10",
             "q11", "q12", "q13">>
PoolLetters == <<"A", "B", "C", "D", "E", "F", "G", "H", "I", "J", "K", "L", "M">>
PoolSize == MAX_WORKERS + 1
PoolName(i) == CORE_PAGES[1] \o <<" ", PoolLetters[i]>>
PoolPages == [i \in 1..PoolSize |-> <<PoolIds[i], PoolName(i)>>]
PoolTokens ==
    [i \in 1..PoolSize |->
        <<PoolName(i), [page_name |-> PageName(PoolName(i)), token |-> PyStr("tok")]>>]

\* A page synced by two consecutive runs; between the runs the platform's
\* data for it does not change: one conversation, c1.
RerunPages == << <<"r1", CORE_PAGES[6]>> >>
RerunTokens ==
    << <<CORE_PAGES[6], [page_name |-> PageName(CORE_PAGES[6]), token |-> PyStr("tokS")]>> >>

ConversationScripts(page_id) ==
    IF page_id \in Range(PoolIds)
    THEN { <<DataPage(<<>>)>> }
    ELSE IF page_id = "r1"
    THEN { <<DataPage(<<FetchedConversation("c1", "u1", IsoText(MaxTime))>>)>> }
    ELSE IF page_id = "p1"
    THEN { <<DataPage(<<FetchedConversation("c1", "u1", s)>>)>> : s \in FetchedStamps }
         \cup { <<DataPage(<<FetchedConversation("c1", "u1", IsoText(MaxTime))>>),
                  DataPage(<<FetchedConversation("c2", "u2", IsoText(0))>>)>>,
                <<DataPage(<<>>)>>,
                <<ErrorPayload(PyNone)>>,
                <<ErrorPayload(PyStr(""))>>,
                <<ErrorPayload(PyStr("(#4) Application request limit reached"))>>,
                <<TransportFailure>>,
                <<DataPage(<<FetchedConversation("c1", "u1", IsoText(0))>>),
                  TransportFailure>> }
    ELSE { <<DataPage(<<[id |-> "c3",
                         participants |-> << [id |-> "u3", name |-> PyStr("Cy")] >>,
                         updated_time |-> IsoText(0), message_count |-> PyNone]>>)>>,
           <<TransportFailure>> }

FetchedMessage(id, from, stamp) ==
    [id |-> id, from |-> from, message |-> PyStr("text"), created_time |-> stamp]

MessageScripts(conversation_id) ==
    IF conversation_id = "c1"
    THEN { <<DataPage(<<FetchedMessage("ma", UserPerson, IsoText(0)),
                        FetchedMessage("mb", PagePerson, IsoText(MaxTime))>>)>>,
           <<DataPage(<<FetchedMessage("ma", UserPerson, IsoText(0))>>),
             ErrorPayload(PyStr("boom"))>>,
           <<TransportFailure>> }
    ELSE IF conversation_id = "c2"
    THEN { <<DataPage(<<FetchedMessage("md", [t |-> "dict", id |-> PyStr("u2"),
                                              name |-> PyStr("Bob")], IsoText(0))>>)>> }
    ELSE { <<DataPage(<<FetchedMessage("me", PyNone, IsoText(0))>>)>>,
           <<DataPage(<<>>)>> }

(***************************************************************************)
(* sync_page: the state of one call.                                       *)
(***************************************************************************)
NewResult(page_id, page_name, now) ==
    [page_name |-> page_name, page_id |-> page_id, conversations |-> 0,
     conversations_skipped |-> 0, messages |-> 0, error |-> PyNone,
     sync_time |-> IsoTime(now)]

\* A submitted call that no worker has started.  fetch_outcome,
\* msg_fetch_failed, write_failed, upserted, fetched_for and queries (the
\* fetcher calls made, with the since_date passed) record what the call did.
QueuedTask(p) ==
    [pc |-> "queued", page_name |-> p.page_name, access_token |-> p.access_token,
     since_date |-> p.since_date, result |-> NewResult("", <<>>, 0),
     conversations |-> <<>>, existing |-> EmptyTable, changed |-> <<>>,
     i |-> 0, messages |-> <<>>, yielded |-> FALSE,
     fetch_outcome |-> "", msg_fetch_failed |-> FALSE, write_failed |-> FALSE,
     upserted |-> <<>>, fetched_for |-> <<>>, queries |-> {}]

\* The call has ended: its frame is gone, the future holds the result or
\* the exception.
Ended(tk, pc) ==
    [tk EXCEPT !.pc = pc, !.conversations = <<>>, !.existing = EmptyTable,
               !.changed = <<>>, !.i = 0, !.messages = <<>>,
               !.upserted = <<>>, !.fetched_for = <<>>, !.queries = {}]

Executing(tk) == tk.pc \notin {"queued", "returned", "raised"}
Finished(tk) == tk.pc \in {"returned", "raised"}

\* A faulty variant of metadata_batch: only the changed conversations.
metadata_batch_faulty(conversations, changed) == changed

\* The list sync_page passes to upsert_conversations.
metadata_batch(conversations, changed) == conversations

\* The step after conversation i of changed_conversations is finished.
AfterConversation(tk) ==
    IF tk.i < Len(tk.changed)
    THEN [tk EXCEPT !.pc = "fetch_messages", !.i = tk.i + 1, !.messages = <<>>]
    ELSE [tk EXCEPT !.pc = "close", !.messages = <<>>]

(***************************************************************************)
(* main().                                                                 *)
(***************************************************************************)
Init ==
    /\ tokens_file \in TokenFiles
    /\ status_file \in StatusFiles
    /\ db_pages = Pages
    /\ convTable \in InitialConversationTables
    /\ msgTable = EmptyTable
    /\ mainPc = "start"
    /\ sync_status = EmptyTable
    /\ pages_to_sync = <<>>
    /\ task = EmptyTable
    /\ results = <<>>
    /\ call_count = 0
    /\ requests = [k \in {Pages[i][1] : i \in DOMAIN Pages} |-> 0]
    /\ clock = StartClock
    /\ prep_i = 0
    /\ summary = NoSummary
    /\ status_loaded = EmptyTable
    /\ driver = "run"
    /\ last_call = NoCall
    /\ AuxIdle

storeVars == <<convTable, msgTable, driver, last_call>>

\* load_sync_status(): the whole file, {} when there is none.
load_sync_status(file) == file

\* A faulty variant of save_sync_status: the records are merged into the
\* file, records of pages missing from the map stay.
save_sync_status_faulty(file, status) ==
    [k \in DOMAIN file \cup DOMAIN status |->
        IF k \in DOMAIN status THEN status[k] ELSE file[k]]

\* save_sync_status(status): the file is opened with 'w' and holds the map
\* and nothing else.
save_sync_status(file, status) == status

\* load_tokens(), load_sync_status(), get_pages_from_db(); the query for
\* the pages may fail, which nothing catches.
MainLoad ==
    /\ mainPc = "start"
    /\ IF tokens_file = <<>>
       THEN /\ mainPc' = "returned_early"
            /\ UNCHANGED <<sync_status, status_loaded, prep_i, store_log>>
       ELSE \E dbUp \in BOOLEAN :
            /\ mainPc' = IF dbUp THEN "prepare" ELSE "raised_in_load"
            /\ sync_status' = load_sync_status(status_file)
            /\ status_loaded' = load_sync_status(status_file)
            /\ store_log' = Append(store_log, "load")
            /\ prep_i' = IF dbUp THEN 1 ELSE 0
    /\ UNCHANGED <<tokens_file, status_file, db_pages, pages_to_sync, task,
                   results, call_count, requests, clock, summary>>
    /\ UNCHANGED storeVars
    /\ UNCHANGED <<time_now, waiters, recalc, runs, previous>>

\* token_data is falsy when find_page_token returned None or an empty dict.
TokenDataTruthy(found) ==
    found.t = "data" /\ (~IsNone(found.v.page_name) \/ ~IsNone(found.v.token))

\* sync_status.get(page_id, {}).get("last_sync")
LastSyncOf(status, page_id) ==
    IF page_id \in DOMAIN status THEN status[page_id].last_sync ELSE PyNone

\* A faulty variant of DaysBack: the two windows are swapped.
DaysBackFaulty(last_sync) ==
    IF Truthy(last_sync) THEN FIRST_RUN_DAYS ELSE SUBSEQUENT_RUN_DAYS

\* days_back: the narrow window when the page has a last_sync, else the wide one.
DaysBack(last_sync) ==
    IF Truthy(last_sync) THEN SUBSEQUENT_RUN_DAYS ELSE FIRST_RUN_DAYS

\* One iteration of the loop that prepares pages_to_sync.
MainPrepare ==
    /\ mainPc = "prepare"
    /\ prep_i <= Len(db_pages)
    /\ LET page_id == db_pages[prep_i][1]
           page_name == db_pages[prep_i][2]
           found == find_page_token(tokens_file, page_name)
           last_sync == LastSyncOf(sync_status, page_id)
       IN IF ~IsCore(page_name)
          THEN /\ prep_i' = prep_i + 1
               /\ UNCHANGED <<mainPc, pages_to_sync>>
          ELSE IF found.t = "RecursionError"
          THEN /\ mainPc' = "raised_in_prepare"
               /\ UNCHANGED <<prep_i, pages_to_sync>>
          ELSE IF ~TokenDataTruthy(found) \/ ~Truthy(found.v.token)
          THEN /\ prep_i' = prep_i + 1
               /\ UNCHANGED <<mainPc, pages_to_sync>>
          ELSE /\ prep_i' = prep_i + 1
               /\ pages_to_sync' = Append(pages_to_sync,
                    [page_id |-> page_id, page_name |-> page_name,
                     access_token |-> found.v.token.v,
                     since_date |-> clock - DaysBack(last_sync),
                     last_sync |-> last_sync])
               /\ UNCHANGED mainPc
    /\ UNCHANGED <<tokens_file, status_file, db_pages, sync_status, task, results,
                   call_count, requests, clock, summary, status_loaded>>
    /\ UNCHANGED storeVars
    /\ UNCHANGED auxVars

\* The end of the loop: return when nothing is to be synced, else submit
\* every page to the executor.
MainDispatch ==
    /\ mainPc = "prepare"
    /\ prep_i > Len(db_pages)
    /\ IF pages_to_sync = <<>>
       THEN /\ mainPc' = "returned_early"
            /\ UNCHANGED task
       ELSE /\ mainPc' = "collect"
            /\ task' = [t \in {pages_to_sync[k].page_id : k \in DOMAIN pages_to_sync} |->
                          QueuedTask(pages_to_sync[
                              CHOOSE k \in DOMAIN pages_to_sync :
                                  pages_to_sync[k].page_id = t])]
    /\ UNCHANGED <<tokens_file, status_file, db_pages, sync_status, pages_to_sync,
                   results, call_count, requests, clock, prep_i, summary,
                   status_loaded>>
    /\ UNCHANGED storeVars
    /\ UNCHANGED auxVars

\* The position of a page in the order of submission.
SubmitIndex(t) == CHOOSE k \in DOMAIN pages_to_sync : pages_to_sync[k].page_id = t

PoolAlive == mainPc \in {"collect", "unwinding"}

\* A faulty variant of WorkerFree: the pool starts a thread for every call.
WorkerFreeFaulty(tasks) == TRUE

\* ThreadPoolExecutor(max_workers=MAX_WORKERS): a call is started only
\* while fewer than MAX_WORKERS calls are executing.
WorkerFree(tasks) ==
    Cardinality({u \in DOMAIN tasks : Executing(tasks[u])}) < MAX_WORKERS

\* A free worker takes the oldest queued call and enters sync_page.
TaskStart(t) ==
    /\ PoolAlive
    /\ task[t].pc = "queued"
    /\ WorkerFree(task)
    /\ \A u \in DOMAIN task :
        SubmitIndex(u) < SubmitIndex(t) => task[u].pc # "queued"
    /\ task' = [task EXCEPT ![t].pc = "fetch_conversations",
                            ![t].result = NewResult(t, task[t].page_name, clock)]
    /\ UNCHANGED <<tokens_file, status_file, db_pages, mainPc, sync_status,
                   pages_to_sync, results, call_count, requests, clock, prep_i,
                   summary, status_loaded>>
    /\ UNCHANGED storeVars
    /\ UNCHANGED auxVars

\* A faulty variant of NoConversations: an empty list does not end the call.
NoConversationsFaulty(conversations) == FALSE

\* if not conversations: return result
NoConversations(conversations) == conversations = <<>>

\* conversations, error = fetch_conversations(...), and the two early returns.
TaskFetchConversations(t) ==
    /\ PoolAlive
    /\ task[t].pc = "fetch_conversations"
    /\ \E script \in ConversationScripts(t) :
        LET r == fetch_conversations(script)
            tk == [task[t] EXCEPT
                      !.fetch_outcome =
                          IF \E i \in DOMAIN script : script[i].kind # "data"
                          THEN "failed" ELSE "ok",
                      !.queries = @ \cup {[fn |-> "fetch_conversations",
                                           since |-> task[t].since_date]}]
        IN /\ call_count' = call_count + r.waits
           /\ requests' = [requests EXCEPT ![t] = @ + r.requests]
           /\ task' = [task EXCEPT ![t] =
                IF Truthy(r.error)
                THEN Ended([tk EXCEPT !.result.error = r.error], "returned")
                ELSE IF NoConversations(r.items)
                THEN Ended(tk, "returned")
                ELSE [tk EXCEPT !.pc = "get_existing", !.conversations = r.items]]
    /\ UNCHANGED <<tokens_file, status_file, db_pages, mainPc, sync_status,
                   pages_to_sync, results, clock, prep_i, summary, status_loaded>>
    /\ UNCHANGED storeVars
    /\ UNCHANGED auxVars

\* existing_convos = get_existing_conversations(page_id); the connection or
\* the query may fail, and nothing in sync_page catches that.
TaskGetExisting(t) ==
    /\ PoolAlive
    /\ task[t].pc = "get_existing"
    /\ \E dbUp \in BOOLEAN :
        task' = [task EXCEPT ![t] =
            IF dbUp
            THEN [task[t] EXCEPT !.pc = "get_connection",
                                 !.existing = get_existing_conversations(convTable, t)]
            ELSE Ended(task[t], "raised")]
    /\ UNCHANGED <<tokens_file, status_file, db_pages, mainPc, sync_status,
                   pages_to_sync, results, call_count, requests, clock, prep_i,
                   summary, status_loaded>>
    /\ UNCHANGED storeVars
    /\ UNCHANGED auxVars

\* conn = get_connection()
TaskGetConnection(t) ==
    /\ PoolAlive
    /\ task[t].pc = "get_connection"
    /\ \E dbUp \in BOOLEAN :
        task' = [task EXCEPT ![t] =
            IF dbUp THEN [task[t] EXCEPT !.pc = "upsert_conversations"]
            ELSE Ended(task[t], "raised")]
    /\ UNCHANGED <<tokens_file, status_file, db_pages, mainPc, sync_status,
                   pages_to_sync, results, call_count, requests, clock, prep_i,
                   summary, status_loaded>>
    /\ UNCHANGED storeVars
    /\ UNCHANGED auxVars

\* The filter loop, then result["conversations"] = upsert_conversations(...).
TaskUpsertConversations(t) ==
    /\ PoolAlive
    /\ task[t].pc = "upsert_conversations"
    /\ \E dbOk \in BOOLEAN :
        LET tk == task[t]
            changed == changed_conversations(tk.existing, tk.conversations)
            batch == metadata_batch(tk.conversations, changed)
            r == upsert_conversations(convTable, t, batch, dbOk)
        IN /\ convTable' = r.table
           /\ task' = [task EXCEPT ![t] =
                [tk EXCEPT !.changed = changed,
                           !.result.conversations_skipped =
                               conversations_skipped(tk.existing, tk.conversations),
                           !.result.conversations = r.ret,
                           !.upserted = batch,
                           !.write_failed = r.failed,
                           !.i = IF changed = <<>> THEN 0 ELSE 1,
                           !.pc = IF changed = <<>> THEN "close" ELSE "fetch_messages"]]
    /\ UNCHANGED <<tokens_file, status_file, db_pages, mainPc, sync_status,
                   pages_to_sync, results, call_count, requests, clock, prep_i,
                   summary, status_loaded>>
    /\ UNCHANGED <<msgTable, driver, last_call>>
    /\ UNCHANGED auxVars

\* messages = fetch_messages(conv["id"], access_token, since_date)
TaskFetchMessages(t) ==
    /\ PoolAlive
    /\ task[t].pc = "fetch_messages"
    /\ LET conv == task[t].changed[task[t].i]
       IN \E script \in MessageScripts(conv.id) :
            LET r == fetch_messages(script)
            IN /\ call_count' = call_count + r.waits
               /\ requests' = [requests EXCEPT ![t] = @ + r.requests]
               /\ task' = [task EXCEPT
                    ![t].pc = "upsert_messages",
                    ![t].messages = r.items,
                    ![t].fetched_for = Append(@, conv.id),
                    ![t].msg_fetch_failed =
                        @ \/ \E i \in DOMAIN script : script[i].kind # "data",
                    ![t].queries = @ \cup {[fn |-> "fetch_messages",
                                            since |-> task[t].since_date]}]
    /\ UNCHANGED <<tokens_file, status_file, db_pages, mainPc, sync_status,
                   pages_to_sync, results, clock, prep_i, summary, status_loaded>>
    /\ UNCHANGED storeVars
    /\ UNCHANGED auxVars

\* A faulty variant of DerivationDue: the derivation runs after every batch.
DerivationDueFaulty(msg_count) == msg_count >= 0

\* if msg_count > 0: calculate_response_times(conn, conv["id"])
DerivationDue(msg_count) == msg_count > 0

\* msg_count = upsert_messages(...); result["messages"] += msg_count
TaskUpsertMessages(t) ==
    /\ PoolAlive
    /\ task[t].pc = "upsert_messages"
    /\ \E dbOk \in BOOLEAN :
        LET tk == task[t]
            conv == tk.changed[tk.i]
            r == upsert_messages(msgTable, t, conv.id, tk.messages, dbOk)
            counted == [tk EXCEPT !.result.messages = @ + r.ret,
                                  !.write_failed = @ \/ r.failed]
        IN /\ msgTable' = r.table
           /\ task' = [task EXCEPT ![t] =
                IF DerivationDue(r.ret) THEN [counted EXCEPT !.pc = "calculate"]
                ELSE AfterConversation(counted)]
    /\ UNCHANGED <<tokens_file, status_file, db_pages, mainPc, sync_status,
                   pages_to_sync, results, call_count, requests, clock, prep_i,
                   summary, status_loaded>>
    /\ UNCHANGED <<convTable, driver, last_call>>
    /\ UNCHANGED auxVars

\* calculate_response_times(conn, conv["id"]); a database error in it is
\* not caught.
TaskCalculate(t) ==
    /\ PoolAlive
    /\ task[t].pc = "calculate"
    /\ LET conv == task[t].changed[task[t].i]
       IN \/ /\ \E order \in ReadOrders(msgTable, conv.id) :
                    msgTable' = calculate_response_times(msgTable, order)
             /\ task' = [task EXCEPT ![t] = AfterConversation(task[t])]
          \/ /\ task' = [task EXCEPT ![t] = Ended(task[t], "raised")]
             /\ UNCHANGED msgTable
    /\ UNCHANGED <<tokens_file, status_file, db_pages, mainPc, sync_status,
                   pages_to_sync, results, call_count, requests, clock, prep_i,
                   summary, status_loaded>>
    /\ UNCHANGED <<convTable, driver, last_call>>
    /\ UNCHANGED auxVars

\* conn.close(); return result
TaskClose(t) ==
    /\ PoolAlive
    /\ task[t].pc = "close"
    /\ task' = [task EXCEPT ![t] = Ended(task[t], "returned")]
    /\ UNCHANGED <<tokens_file, status_file, db_pages, mainPc, sync_status,
                   pages_to_sync, results, call_count, requests, clock, prep_i,
                   summary, status_loaded>>
    /\ UNCHANGED storeVars
    /\ UNCHANGED auxVars

\* One iteration of "for future in as_completed(futures)": future.result()
\* returns the result record, or raises what sync_page raised.  The
\* exception leaves the loop; leaving the with block waits for the workers.
MainCollect(t) ==
    /\ mainPc = "collect"
    /\ Finished(task[t])
    /\ ~task[t].yielded
    /\ IF task[t].pc = "raised"
       THEN /\ mainPc' = "unwinding"
            /\ task' = [task EXCEPT ![t].yielded = TRUE]
            /\ UNCHANGED <<results, sync_status>>
       ELSE LET result == task[t].result
            IN /\ results' = Append(results, result)
               /\ task' = [task EXCEPT ![t].yielded = TRUE]
               /\ sync_status' =
                    IF ~Truthy(result.error)
                    THEN Put(sync_status, result.page_id,
                             [last_sync |-> result.sync_time,
                              conversations |-> result.conversations,
                              messages |-> result.messages])
                    ELSE sync_status
               /\ UNCHANGED mainPc
    /\ UNCHANGED <<tokens_file, status_file, db_pages, pages_to_sync, call_count,
                   requests, clock, prep_i, summary, status_loaded>>
    /\ UNCHANGED storeVars
    /\ UNCHANGED auxVars

\* executor.shutdown(wait=True) is over: the exception leaves main().
MainUnwind ==
    /\ mainPc = "unwinding"
    /\ \A t \in DOMAIN task : Finished(task[t])
    /\ mainPc' = "raised_in_collect"
    /\ UNCHANGED <<tokens_file, status_file, db_pages, sync_status, pages_to_sync,
                   task, results, call_count, requests, clock, prep_i, summary,
                   status_loaded>>
    /\ UNCHANGED storeVars
    /\ UNCHANGED auxVars

\* save_sync_status(sync_status)
MainSave ==
    /\ mainPc = "collect"
    /\ \A t \in DOMAIN task : task[t].yielded
    /\ status_file' = save_sync_status(status_file, sync_status)
    /\ store_log' = Append(store_log, "save")
    /\ mainPc' = "summary"
    /\ UNCHANGED <<tokens_file, db_pages, sync_status, pages_to_sync, task, results,
                   call_count, requests, clock, prep_i, summary, status_loaded>>
    /\ UNCHANGED storeVars
    /\ UNCHANGED <<time_now, waiters, recalc, runs, previous>>

RECURSIVE SumOf(_, _)
SumOf(rs, field) ==
    IF rs = <<>> THEN 0 ELSE Head(rs)[field] + SumOf(Tail(rs), field)

\* The summary loop over results.
MainSummary ==
    /\ mainPc = "summary"
    /\ summary' = [total_convs |-> SumOf(results, "conversations"),
                   total_msgs |-> SumOf(results, "messages"),
                   total_skipped |-> SumOf(results, "conversations_skipped"),
                   errors |-> SelectSeq(results, LAMBDA r : Truthy(r.error))]
    /\ mainPc' = "done"
    /\ UNCHANGED <<tokens_file, status_file, db_pages, sync_status, pages_to_sync,
                   task, results, call_count, requests, clock, prep_i, status_loaded>>
    /\ UNCHANGED storeVars
    /\ UNCHANGED auxVars

TaskStep(t) ==
    \/ TaskStart(t)
    \/ TaskFetchConversations(t)
    \/ TaskGetExisting(t)
    \/ TaskGetConnection(t)
    \/ TaskUpsertConversations(t)
    \/ TaskFetchMessages(t)
    \/ TaskUpsertMessages(t)
    \/ TaskCalculate(t)
    \/ TaskClose(t)

Next ==
    \/ MainLoad
    \/ MainPrepare
    \/ MainDispatch
    \/ \E t \in DOMAIN task : TaskStep(t)
    \/ \E t \in DOMAIN task : MainCollect(t)
    \/ MainUnwind
    \/ MainSave
    \/ MainSummary

Spec == Init /\ [][Next]_vars

(***************************************************************************)
(* Consecutive runs: main() is started again (by the scheduler) after the  *)
(* earlier run has ended, some days later, on the files and tables the     *)
(* earlier run left.                                                       *)
(***************************************************************************)
\* The number of runs followed, and the longest gap between two runs in days.
MaxRuns == 2
MaxGap == 3

InitRerun ==
    /\ tokens_file = RerunTokens
    /\ status_file = EmptyTable
    /\ db_pages = RerunPages
    /\ convTable = EmptyTable
    /\ msgTable = EmptyTable
    /\ mainPc = "start"
    /\ sync_status = EmptyTable
    /\ pages_to_sync = <<>>
    /\ task = EmptyTable
    /\ results = <<>>
    /\ call_count = 0
    /\ requests = [k \in {RerunPages[i][1] : i \in DOMAIN RerunPages} |-> 0]
    /\ clock = StartClock
    /\ prep_i = 0
    /\ summary = NoSummary
    /\ status_loaded = EmptyTable
    /\ driver = "rerun"
    /\ last_call = NoCall
    /\ AuxIdle

\* A new process runs main(): nothing in memory survives, the files and the
\* tables do.
MainRestart ==
    /\ mainPc \in {"done", "raised_in_collect", "raised_in_load"}
    /\ Len(previous) < MaxRuns - 1
    /\ \E gap \in 1..MaxGap : clock' = clock + gap
    /\ previous' = Append(previous, task)
    /\ mainPc' = "start"
    /\ sync_status' = EmptyTable
    /\ pages_to_sync' = <<>>
    /\ task' = EmptyTable
    /\ results' = <<>>
    /\ call_count' = 0
    /\ requests' = [k \in DOMAIN requests |-> 0]
    /\ prep_i' = 0
    /\ summary' = NoSummary
    /\ status_loaded' = EmptyTable
    /\ store_log' = <<>>
    /\ UNCHANGED <<tokens_file, status_file, db_pages>>
    /\ UNCHANGED storeVars
    /\ UNCHANGED <<time_now, waiters, recalc, runs>>

NextRerun == Next \/ MainRestart

SpecRerun == InitRerun /\ [][NextRerun]_vars

(***************************************************************************)
(* The worker pool with more pages than workers: main() up to its wait in  *)
(* as_completed, and the workers.  A worker that can take a step takes one.*)
(***************************************************************************)
InitPool ==
    /\ tokens_file = PoolTokens
    /\ status_file = EmptyTable
    /\ db_pages = PoolPages
    /\ convTable = EmptyTable
    /\ msgTable = EmptyTable
    /\ mainPc = "start"
    /\ sync_status = EmptyTable
    /\ pages_to_sync = <<>>
    /\ task = EmptyTable
    /\ results = <<>>
    /\ call_count = 0
    /\ requests = [k \in {PoolPages[i][1] : i \in DOMAIN PoolPages} |-> 0]
    /\ clock = StartClock
    /\ prep_i = 0
    /\ summary = NoSummary
    /\ status_loaded = EmptyTable
    /\ driver = "pool"
    /\ last_call = NoCall
    /\ AuxIdle

NextPool ==
    \/ MainLoad
    \/ MainPrepare
    \/ MainDispatch
    \/ \E t \in DOMAIN task : TaskStart(t)
    \/ \E t \in DOMAIN task : TaskFetchConversations(t)

SpecPool == InitPool /\ [][NextPool]_vars /\ WF_vars(NextPool)

(***************************************************************************)
(* RateLimiter.wait() in time: workers call wait() again and again while   *)
(* the clock advances.  Times are in milliseconds.                         *)
(***************************************************************************)
\* API_CALLS_PER_MINUTE = 600
API_CALLS_PER_MINUTE == 600
\* MIN_DELAY_BETWEEN_CALLS = 0.1 (seconds)
MIN_DELAY_BETWEEN_CALLS == 100

\* self.min_interval = 60.0 / calls_per_minute
min_interval == 60000 \div API_CALLS_PER_MINUTE

\* The clock advances in steps of TickMs up to MaxNow; a worker is followed
\* through MaxPasses calls of wait().
TickMs == 50
MaxNow == 300
MaxPasses == 3

Workers == {"w1", "w2"}

\* A faulty variant of SleepUntil: wait() does not sleep.
SleepUntilFaulty(t) == t

\* time.sleep(MIN_DELAY_BETWEEN_CALLS) entered at time t returns no earlier
\* than this.
SleepUntil(t) == t + MIN_DELAY_BETWEEN_CALLS

InitPacing ==
    /\ tokens_file = <<>>
    /\ status_file = EmptyTable
    /\ db_pages = <<>>
    /\ convTable = EmptyTable
    /\ msgTable = EmptyTable
    /\ mainPc = "idle"
    /\ sync_status = EmptyTable
    /\ pages_to_sync = <<>>
    /\ task = EmptyTable
    /\ results = <<>>
    /\ call_count = 0
    /\ requests = EmptyTable
    /\ clock = 0
    /\ prep_i = 0
    /\ summary = NoSummary
    /\ status_loaded = EmptyTable
    /\ driver = "pacing"
    /\ last_call = NoCall
    /\ time_now = 0
    /\ waiters = [w \in Workers |-> [pc |-> "out", wake |-> 0, passes |-> <<>>]]
    /\ recalc = NoRecalc
    /\ runs = EmptyTable
    /\ previous = <<>>
    /\ store_log = <<>>

pacingFrame ==
    <<tokens_file, status_file, db_pages, convTable, msgTable, mainPc, sync_status,
      pages_to_sync, task, results, requests, clock, prep_i, summary,
      status_loaded, driver, last_call, recalc, runs, previous, store_log>>

\* The worker calls wait() and goes to sleep.
WaitEnter(w) ==
    /\ waiters[w].pc = "out"
    /\ Len(waiters[w].passes) < MaxPasses
    /\ waiters' = [waiters EXCEPT ![w].pc = "sleeping",
                                  ![w].wake = SleepUntil(time_now)]
    /\ UNCHANGED <<time_now, call_count>>
    /\ UNCHANGED pacingFrame

\* A faulty variant of MayPass: one bucket for all workers, no return
\* within min_interval of any earlier return.
MayPassFaulty(ws, w, t) ==
    /\ t >= ws[w].wake
    /\ \A u \in DOMAIN ws : \A i \in DOMAIN ws[u].passes :
            t - ws[u].passes[i] >= min_interval

\* What wait() waits for: the end of the caller's own sleep, nothing else.
MayPass(ws, w, t) == t >= ws[w].wake

\* The sleep is over (at its deadline or later); the worker counts the call
\* under the lock and wait() returns.
WaitLeave(w) ==
    /\ waiters[w].pc = "sleeping"
    /\ MayPass(waiters, w, time_now)
    /\ call_count' = call_count + 1
    /\ waiters' = [waiters EXCEPT ![w].pc = "out",
                                  ![w].passes = Append(@, time_now)]
    /\ UNCHANGED time_now
    /\ UNCHANGED pacingFrame

\* Time passes.
Tick ==
    /\ time_now < MaxNow
    /\ time_now' = time_now + TickMs
    /\ UNCHANGED <<waiters, call_count>>
    /\ UNCHANGED pacingFrame

NextPacing ==
    \/ \E w \in Workers : WaitEnter(w)
    \/ \E w \in Workers : WaitLeave(w)
    \/ Tick

SpecPacing == InitPacing /\ [][NextPacing]_vars

(***************************************************************************)
(* RateLimiter.call_count under concurrent calls of wait(): the sleep, the *)
(* lock, and the load and the store that "self.call_count += 1" is made of.*)
(***************************************************************************)
CounterWorkers == {"w1", "w2", "w3"}

\* A faulty variant of LockFree: the lock never blocks.
LockFreeFaulty(ws) == TRUE

\* self.lock can be acquired: no worker is inside "with self.lock".
LockFree(ws) == \A w \in DOMAIN ws : ws[w].pc \notin {"holding", "loaded"}

InitCounter ==
    /\ tokens_file = <<>>
    /\ status_file = EmptyTable
    /\ db_pages = <<>>
    /\ convTable = EmptyTable
    /\ msgTable = EmptyTable
    /\ mainPc = "idle"
    /\ sync_status = EmptyTable
    /\ pages_to_sync = <<>>
    /\ task = EmptyTable
    /\ results = <<>>
    /\ call_count = 0
    /\ requests = EmptyTable
    /\ clock = 0
    /\ prep_i = 0
    /\ summary = NoSummary
    /\ status_loaded = EmptyTable
    /\ driver = "counter"
    /\ last_call = NoCall
    /\ time_now = 0
    /\ waiters = [w \in CounterWorkers |->
                    [pc |-> "out", loaded |-> 0, calls |-> 0, returns |-> 0]]
    /\ recalc = NoRecalc
    /\ runs = EmptyTable
    /\ previous = <<>>
    /\ store_log = <<>>

counterFrame ==
    <<tokens_file, status_file, db_pages, convTable, msgTable, mainPc, sync_status,
      pages_to_sync, task, results, requests, clock, prep_i, summary,
      status_loaded, driver, last_call, time_now, recalc, runs, previous, store_log>>

\* The worker calls wait() and sleeps.
CounterCall(w) ==
    /\ waiters[w].pc = "out"
    /\ waiters[w].calls < MaxPasses
    /\ waiters' = [waiters EXCEPT ![w].pc = "sleeping", ![w].calls = @ + 1]
    /\ UNCHANGED call_count
    /\ UNCHANGED counterFrame

\* with self.lock: the worker gets the lock when it is free.
CounterAcquire(w) ==
    /\ waiters[w].pc = "sleeping"
    /\ LockFree(waiters)
    /\ waiters' = [waiters EXCEPT ![w].pc = "holding"]
    /\ UNCHANGED call_count
    /\ UNCHANGED counterFrame

\* self.call_count += 1, first half: the value is loaded.
CounterLoad(w) ==
    /\ waiters[w].pc = "holding"
    /\ waiters' = [waiters EXCEPT ![w].pc = "loaded", ![w].loaded = call_count]
    /\ UNCHANGED call_count
    /\ UNCHANGED counterFrame

\* second half: the value plus one is stored; the lock is released and
\* wait() returns.
CounterStore(w) ==
    /\ waiters[w].pc = "loaded"
    /\ call_count' = waiters[w].loaded + 1
    /\ waiters' = [waiters EXCEPT ![w].pc = "out", ![w].loaded = 0,
                                  ![w].returns = @ + 1]
    /\ UNCHANGED counterFrame

NextCounter ==
    \/ \E w \in CounterWorkers : CounterCall(w)
    \/ \E w \in CounterWorkers : CounterAcquire(w)
    \/ \E w \in CounterWorkers : CounterLoad(w)
    \/ \E w \in CounterWorkers : CounterStore(w)

SpecCounter == InitCounter /\ [][NextCounter]_vars

(***************************************************************************)
(* The maintenance mode, recalculate_all_response_times(), over stored     *)
(* messages of up to two conversations.                                    *)
(***************************************************************************)
\* The conversation ids in the order of ORDER BY conversation_id.
ConversationIds == <<"c1", "c2", "c3", "cx">>

\* A faulty variant of DistinctConversations: conversations without a
\* message of the page are left out.
DistinctConversationsFaulty(table) ==
    LET Stored(c) == \E m \in DOMAIN table :
                        table[m].conversation_id = c /\ table[m].is_from_page
    IN SelectSeq(ConversationIds, Stored)

\* SELECT DISTINCT conversation_id FROM messages ORDER BY conversation_id
DistinctConversations(table) ==
    LET Stored(c) == \E m \in DOMAIN table : table[m].conversation_id = c
    IN SelectSeq(ConversationIds, Stored)

\* The messages table as earlier syncs left it, no latency derived yet.
RecalcTables ==
    { upsert_messages(upsert_messages(EmptyTable, "p1", "c1", b1, TRUE).table,
                      "p1", "cx", b2, TRUE).table :
        b1 \in MessageBatches \cup {<<>>}, b2 \in {<<>>, ExampleBatch} }

InitRecalc ==
    /\ tokens_file = <<>>
    /\ status_file \in StatusFiles
    /\ db_pages = <<>>
    /\ convTable \in InitialConversationTables
    /\ msgTable \in RecalcTables
    /\ mainPc = "recalc_start"
    /\ sync_status = EmptyTable
    /\ pages_to_sync = <<>>
    /\ task = EmptyTable
    /\ results = <<>>
    /\ call_count = 0
    /\ requests = EmptyTable
    /\ clock = 0
    /\ prep_i = 0
    /\ summary = NoSummary
    /\ status_loaded = EmptyTable
    /\ driver = "recalc"
    /\ last_call = NoCall
    /\ time_now = 0
    /\ waiters = EmptyTable
    /\ recalc = NoRecalc
    /\ runs = EmptyTable
    /\ previous = <<>>
    /\ store_log = <<>>

recalcFrame ==
    <<tokens_file, status_file, db_pages, convTable, sync_status, pages_to_sync,
      task, results, call_count, requests, clock, prep_i, summary, status_loaded,
      driver, last_call, time_now, waiters, runs, previous, store_log>>

\* get_connection() and the SELECT of the conversation ids; either may
\* fail, which nothing catches.
RecalcStart ==
    /\ mainPc = "recalc_start"
    /\ \E dbUp \in BOOLEAN :
        IF dbUp
        THEN /\ mainPc' = "recalc_loop"
             /\ recalc' = [todo |-> DistinctConversations(msgTable), done |-> <<>>]
        ELSE /\ mainPc' = "recalc_raised"
             /\ UNCHANGED recalc
    /\ UNCHANGED msgTable
    /\ UNCHANGED recalcFrame

\* One iteration of the loop: calculate_response_times(conn, conv_id).
RecalcStep ==
    /\ mainPc = "recalc_loop"
    /\ recalc.todo # <<>>
    /\ \/ /\ \E order \in ReadOrders(msgTable, Head(recalc.todo)) :
                msgTable' = calculate_response_times(msgTable, order)
          /\ recalc' = [todo |-> Tail(recalc.todo),
                        done |-> Append(recalc.done, Head(recalc.todo))]
          /\ UNCHANGED mainPc
       \/ /\ mainPc' = "recalc_raised"
          /\ UNCHANGED <<msgTable, recalc>>
    /\ UNCHANGED recalcFrame

\* conn.close() after the loop.
RecalcDone ==
    /\ mainPc = "recalc_loop"
    /\ recalc.todo = <<>>
    /\ mainPc' = "recalc_done"
    /\ UNCHANGED <<msgTable, recalc>>
    /\ UNCHANGED recalcFrame

NextRecalc == RecalcStart \/ RecalcStep \/ RecalcDone

SpecRecalc == InitRecalc /\ [][NextRecalc]_vars

(***************************************************************************)
(* Two runs of main() that overlap on sync_status.json.  Of each run the   *)
(* model keeps what touches the cursor store: the load, the collection     *)
(* loop with the outcome of each pipeline, and the save.                   *)
(***************************************************************************)
RunIds == {"A", "B"}
OverlapPages == {"p1", "p2"}

IdleRun ==
    [pc |-> "idle", sync_status |-> EmptyTable, loaded |-> EmptyTable,
     pending |-> {}, ok |-> {}]

InitOverlap ==
    /\ tokens_file = <<>>
    /\ status_file \in StatusFiles
    /\ db_pages = <<>>
    /\ convTable = EmptyTable
    /\ msgTable = EmptyTable
    /\ mainPc = "idle"
    /\ sync_status = EmptyTable
    /\ pages_to_sync = <<>>
    /\ task = EmptyTable
    /\ results = <<>>
    /\ call_count = 0
    /\ requests = EmptyTable
    /\ clock = StartClock
    /\ prep_i = 0
    /\ summary = NoSummary
    /\ status_loaded = EmptyTable
    /\ driver = "overlap"
    /\ last_call = NoCall
    /\ time_now = 0
    /\ waiters = EmptyTable
    /\ recalc = NoRecalc
    /\ runs = [r \in RunIds |-> IdleRun]
    /\ previous = <<>>
    /\ store_log = <<>>

overlapFrame ==
    <<tokens_file, db_pages, convTable, msgTable, mainPc, sync_status,
      pages_to_sync, task, results, call_count, requests, prep_i, summary,
      status_loaded, driver, last_call, time_now, waiters, recalc, previous>>

\* sync_status = load_sync_status(), then the pages of the run are
\* dispatched.
OverlapLoad(r) ==
    /\ runs[r].pc = "idle"
    /\ \E dispatched \in SUBSET OverlapPages :
        /\ dispatched # {}
        /\ runs' = [runs EXCEPT ![r] =
                [pc |-> "collecting",
                 sync_status |-> load_sync_status(status_file),
                 loaded |-> load_sync_status(status_file),
                 pending |-> dispatched, ok |-> {}]]
    /\ UNCHANGED <<status_file, clock, store_log>>
    /\ UNCHANGED overlapFrame

\* One iteration of the collection loop: the pipeline of page t returned a
\* result without error, returned one with an error, or raised.
OverlapCollect(r, t) ==
    /\ runs[r].pc = "collecting"
    /\ t \in runs[r].pending
    /\ \E outcome \in {"ok", "error", "raised"} :
        runs' = [runs EXCEPT ![r] =
            IF outcome = "raised"
            THEN [@ EXCEPT !.pc = "raised", !.pending = {}]
            ELSE IF outcome = "error"
            THEN [@ EXCEPT !.pending = @ \ {t}]
            ELSE [@ EXCEPT !.pending = @ \ {t}, !.ok = @ \cup {t},
                           !.sync_status =
                               Put(@, t, [last_sync |-> IsoTime(clock),
                                          conversations |-> 1, messages |-> 1])]]
    /\ clock' = clock + 1
    /\ UNCHANGED <<status_file, store_log>>
    /\ UNCHANGED overlapFrame

\* save_sync_status(sync_status) after the loop.
OverlapSave(r) ==
    /\ runs[r].pc = "collecting"
    /\ runs[r].pending = {}
    /\ status_file' = save_sync_status(status_file, runs[r].sync_status)
    /\ store_log' = Append(store_log, r)
    /\ runs' = [runs EXCEPT ![r].pc = "saved"]
    /\ UNCHANGED clock
    /\ UNCHANGED overlapFrame

NextOverlap ==
    \/ \E r \in RunIds : OverlapLoad(r)
    \/ \E r \in RunIds, t \in OverlapPages : OverlapCollect(r, t)
    \/ \E r \in RunIds : OverlapSave(r)

SpecOverlap == InitOverlap /\ [][NextOverlap]_vars

(***************************************************************************)
(* Properties of a run, checked under Spec.                                *)
(***************************************************************************)
\* The cursor record of a page in a cursor store, None when it has none.
CursorOf(store, page_id) ==
    IF page_id \in DOMAIN store THEN store[page_id] ELSE PyNone

HasResult(page_id) == \E k \in DOMAIN results : results[k].page_id = page_id

RunEnded == mainPc \in {"done", "raised_in_prepare", "raised_in_collect"}

\* C1: fault isolation.  When a run that dispatched pipelines has ended,
\* whatever failed inside one pipeline, every pipeline that returned has its
\* result record among the results the summary is computed from, the
\* summary was produced, and the cursor store was saved.
C1_FaultIsolation ==
    (RunEnded /\ DOMAIN task # {}) =>
        /\ \A t \in DOMAIN task : task[t].pc = "returned" => HasResult(t)
        /\ mainPc = "done"
        /\ status_file = sync_status

\* C2: a page whose conversation-list fetch ended in a transport failure or
\* an error payload, whatever the message text, has a result record with a
\* non-empty error, and at the end of the run its saved cursor record is the
\* one loaded at the start (absent stays absent).
C2_FetchFailureKeepsCursor ==
    \A t \in DOMAIN task :
        task[t].fetch_outcome = "failed" =>
            /\ Finished(task[t]) => Truthy(task[t].result.error)
            /\ mainPc = "done" =>
                CursorOf(status_file, t) = CursorOf(status_loaded, t)

\* C3: a page whose pipeline had a failed batch write in
\* upsert_conversations or upsert_messages keeps, at the end of the run, the
\* cursor record loaded at the start.
C3_WriteFailureKeepsCursor ==
    \A t \in DOMAIN task :
        (task[t].write_failed /\ mainPc = "done") =>
            CursorOf(status_file, t) = CursorOf(status_loaded, t)

\* The credential map holds no entry matching the name, or the entry that
\* matches has no token or an empty one.
LacksCredential(page_name) ==
    LET hit == FirstMatch(tokens_file, Strip(Lower(page_name)))
    IN hit = 0 \/ ~Truthy(tokens_file[hit][2].token)

\* C4: a page of the stored list without a usable credential is skipped
\* before any network call: no request is issued for it, it is not
\* dispatched and gets no result record, and main() goes on to the pages
\* after it.
C4_MissingCredentialSkipped ==
    \A i \in DOMAIN db_pages :
        (mainPc # "start" /\ tokens_file # <<>> /\ LacksCredential(db_pages[i][2])) =>
            /\ requests[db_pages[i][1]] = 0
            /\ db_pages[i][1] \notin DOMAIN task
            /\ ~HasResult(db_pages[i][1])
            /\ prep_i = i => mainPc = "prepare"

\* The claim's reading of a fetched updated_time.
ParsesAsTime(x) == ~IsNone(x) /\ x.form = "iso"

\* The claim's rule: fetch when nothing is stored, when the fetched
\* timestamp is missing or does not parse, or when it is later than the
\* stored one.
ClaimedFetch(stored, fetched) ==
    \/ IsNone(stored)
    \/ ~ParsesAsTime(fetched)
    \/ fetched.wall > stored.v

PastFilter(tk) == tk.pc \in {"fetch_messages", "upsert_messages", "calculate", "close"}

\* C5: change detection.  Once a pipeline has filtered its conversations,
\* the conversations it fetches messages for are exactly those with no
\* stored updated_time, those whose fetched updated_time is missing or does
\* not parse, and those whose fetched updated_time is later than the stored
\* one, in the fetched order; every other conversation is counted in
\* conversations_skipped; messages are fetched for these conversations and
\* for no other.
C5_ChangeDetection ==
    \A t \in DOMAIN task :
        PastFilter(task[t]) =>
            LET tk == task[t]
                Claimed(conv) ==
                    ClaimedFetch(ExistingUpdated(tk.existing, conv.id), conv.updated_time)
            IN /\ tk.changed = SelectSeq(tk.conversations, Claimed)
               /\ tk.result.conversations_skipped =
                    Cardinality({k \in DOMAIN tk.conversations :
                                    ~Claimed(tk.conversations[k])})
               /\ Len(tk.fetched_for) <= Len(tk.changed)
               /\ \A k \in DOMAIN tk.fetched_for : tk.fetched_for[k] = tk.changed[k].id
               /\ tk.pc = "close" => Len(tk.fetched_for) = Len(tk.changed)

\* A pipeline at its end that fetched messages for one conversation and
\* skipped another whose stored updated_time was not older.
C5_Witness ==
    \E t \in DOMAIN task :
        /\ task[t].pc = "close"
        /\ task[t].result.conversations_skipped = 1
        /\ Len(task[t].fetched_for) = 1
        /\ \E k \in DOMAIN task[t].conversations :
            LET conv == task[t].conversations[k]
            IN /\ conv.id \in DOMAIN task[t].existing
               /\ ParsesAsTime(conv.updated_time)
               /\ conv.updated_time.wall = task[t].existing[conv.id].v

\* C6: once a pipeline that fetched its conversation list is past the
\* metadata upsert, the list passed to upsert_conversations is the whole
\* fetched list, skipped conversations included, and when the write
\* succeeded every fetched conversation has a row.
C6_MetadataUpsertUnconditional ==
    \A t \in DOMAIN task :
        PastFilter(task[t]) =>
            /\ task[t].upserted = task[t].conversations
            /\ ~task[t].write_failed =>
                \A k \in DOMAIN task[t].conversations :
                    task[t].conversations[k].id \in DOMAIN convTable

\* A pipeline past the upsert that skipped the message fetch of a
\* conversation and still wrote all its conversations.
C6_Witness ==
    \E t \in DOMAIN task :
        /\ task[t].pc = "close"
        /\ task[t].result.conversations_skipped > 0
        /\ task[t].result.conversations = Len(task[t].conversations)
        /\ Len(task[t].changed) < Len(task[t].conversations)

\* The items of the pages of a script fetched before its first failure.
RECURSIVE CollectedBefore(_, _)
CollectedBefore(script, i) ==
    IF i > Len(script) \/ script[i].kind # "data" THEN <<>>
    ELSE script[i].data \o CollectedBefore(script, i + 1)

AllData(script) == \A i \in DOMAIN script : script[i].kind = "data"

\* The first failure of the script is a transport failure on a page after
\* the first.
TransportFailsLater(script) ==
    \E i \in 2..Len(script) :
        /\ script[i].kind = "transport"
        /\ \A j \in 1..(i - 1) : script[j].kind = "data"

\* C12: whenever a pipeline is about to call fetch_conversations, for every
\* answer of the platform with a transport failure on a page after the
\* first, the call returns the conversations of the pages fetched before it
\* together with a non-None error.
C12_PartialConversationsKept ==
    \A t \in DOMAIN task :
        task[t].pc = "fetch_conversations" =>
            \A script \in ConversationScripts(t) :
                TransportFailsLater(script) =>
                    /\ fetch_conversations(script).items = CollectedBefore(script, 1)
                    /\ ~IsNone(fetch_conversations(script).error)

\* C13: whenever a pipeline is about to call fetch_messages, for every
\* answer of the platform the call returns exactly the messages of the pages
\* before the first transport failure or error payload; a pipeline that had
\* such a failure carries no error in its result record, and by the time it
\* closes it has gone through every changed conversation.
C13_MessageFailureSwallowed ==
    \A t \in DOMAIN task :
        LET tk == task[t]
        IN /\ tk.pc = "fetch_messages" =>
                \A script \in MessageScripts(tk.changed[tk.i].id) :
                    fetch_messages(script).items = CollectedBefore(script, 1)
           /\ (tk.msg_fetch_failed /\ tk.pc # "raised") => IsNone(tk.result.error)
           /\ (tk.msg_fetch_failed /\ tk.pc = "close") =>
                Len(tk.fetched_for) = Len(tk.changed)

\* A pipeline at its end whose first message fetch failed after a page of
\* messages: the page was stored and the second conversation was fetched.
C13_Witness ==
    \E t \in DOMAIN task :
        /\ task[t].pc = "close"
        /\ task[t].msg_fetch_failed
        /\ Len(task[t].fetched_for) = 2
        /\ task[t].result.messages = 2
        /\ IsNone(task[t].result.error)

RECURSIVE SumOver(_, _)
SumOver(f, S) ==
    IF S = {} THEN 0
    ELSE LET x == CHOOSE y \in S : TRUE IN f[x] + SumOver(f, S \ {x})

\* C14: the limiter's call counter equals the number of requests issued so
\* far; every call of a fetcher makes as many rate_limiter.wait() calls as
\* requests; and when no page fails the fetcher requests every page of the
\* answer and returns their items concatenated in order, without error.
C14_OneWaitPerRequest ==
    /\ call_count = SumOver(requests, DOMAIN requests)
    /\ \A t \in DOMAIN task :
        LET tk == task[t]
        IN /\ tk.pc = "fetch_conversations" =>
                \A script \in ConversationScripts(t) :
                    LET r == fetch_conversations(script)
                    IN /\ r.waits = r.requests
                       /\ AllData(script) =>
                            /\ r.requests = Len(script)
                            /\ r.items = CollectedBefore(script, 1)
                            /\ IsNone(r.error)
           /\ tk.pc = "fetch_messages" =>
                \A script \in MessageScripts(tk.changed[tk.i].id) :
                    LET r == fetch_messages(script)
                    IN /\ r.waits = r.requests
                       /\ AllData(script) =>
                            /\ r.requests = Len(script)
                            /\ r.items = CollectedBefore(script, 1)

\* A finished run in which a conversation list of two pages was fetched.
C14_Witness ==
    /\ mainPc = "done"
    /\ call_count >= 4
    /\ \E k \in DOMAIN results : results[k].conversations = 2

\* C17: the since_date of every dispatched page is the run's current time
\* minus FIRST_RUN_DAYS when the loaded cursor store holds no last-sync
\* record for the page and minus SUBSEQUENT_RUN_DAYS when it holds one, and
\* every conversation-list and message-list query of the pipeline was made
\* with that since_date.
C17_LookBackWindow ==
    \A t \in DOMAIN task :
        /\ task[t].since_date =
             clock - (IF t \in DOMAIN status_loaded
                      THEN SUBSEQUENT_RUN_DAYS ELSE FIRST_RUN_DAYS)
        /\ \A q \in task[t].queries : q.since = task[t].since_date

\* A pipeline of a page with a stored cursor that has made both kinds of
\* query, next to a page dispatched for the first time.
C17_Witness ==
    /\ \E t \in DOMAIN task :
        /\ t \in DOMAIN status_loaded
        /\ task[t].pc = "close"
        /\ {q.fn : q \in task[t].queries} = {"fetch_conversations", "fetch_messages"}
    /\ \E t \in DOMAIN task : t \notin DOMAIN status_loaded

\* C18: when a run that dispatched pipelines has ended, there is exactly
\* one result record for each dispatched page; the saved cursor record of
\* every page whose result has no error holds that result's sync_time,
\* conversations and messages; and the summary totals are the sums over the
\* result records.
C18_OneResultPerTenant ==
    (RunEnded /\ DOMAIN task # {}) =>
        /\ Len(results) = Cardinality(DOMAIN task)
        /\ \A t \in DOMAIN task :
            Cardinality({k \in DOMAIN results : results[k].page_id = t}) = 1
        /\ \A k \in DOMAIN results :
            ~Truthy(results[k].error) =>
                CursorOf(status_file, results[k].page_id) =
                    [last_sync |-> results[k].sync_time,
                     conversations |-> results[k].conversations,
                     messages |-> results[k].messages]
        /\ summary.total_convs = SumOf(results, "conversations")
        /\ summary.total_msgs = SumOf(results, "messages")
        /\ summary.total_skipped = SumOf(results, "conversations_skipped")

\* C20: a step of a pipeline in which a batch write failed (a non-empty
\* batch for which 0 rows were reported) leaves the table as it was, runs
\* no latency derivation for the batch and takes the pipeline to its next
\* unit of work: the first changed conversation after a failed
\* upsert_conversations, the next changed conversation (or the end) after a
\* failed upsert_messages.
C20_FailedBatchRolledBack ==
    [][\A t \in DOMAIN task :
        /\ ( /\ task[t].pc = "upsert_messages"
             /\ task'[t].pc # "upsert_messages"
             /\ task[t].messages # <<>>
             /\ task'[t].result.messages = task[t].result.messages )
           => /\ msgTable' = msgTable
              /\ task'[t].pc # "calculate"
              /\ IF task[t].i < Len(task[t].changed)
                 THEN task'[t].pc = "fetch_messages" /\ task'[t].i = task[t].i + 1
                 ELSE task'[t].pc = "close"
        /\ ( /\ task[t].pc = "upsert_conversations"
             /\ task'[t].pc # "upsert_conversations"
             /\ task'[t].result.conversations = 0 )
           => /\ convTable' = convTable
              /\ IF task'[t].changed # <<>>
                 THEN task'[t].pc = "fetch_messages" /\ task'[t].i = 1
                 ELSE task'[t].pc = "close"
      ]_vars

\* A pipeline whose conversations were written, whose first message batch
\* failed, and which is now at its second changed conversation with no
\* message stored.
C20_Witness ==
    \E t \in DOMAIN task :
        /\ task[t].pc = "fetch_messages"
        /\ task[t].i = 2
        /\ task[t].write_failed
        /\ task[t].result.conversations = 2
        /\ task[t].result.messages = 0
        /\ msgTable = EmptyTable

Count(log, what) == Cardinality({k \in DOMAIN log : log[k] = what})

\* C23: in a run that dispatched pipelines the cursor store was read
\* exactly once, before the dispatch; it is not written while a pipeline
\* has not finished; the records of pages not dispatched in the run are
\* written back as loaded; and when the run has ended the store has been
\* written exactly once.
C23_StoreReadOnceWrittenOnce ==
    (DOMAIN task # {}) =>
        /\ Count(store_log, "load") = 1
        /\ store_log[1] = "load"
        /\ Count(store_log, "save") <= 1
        /\ (\E t \in DOMAIN task : ~Finished(task[t])) => Count(store_log, "save") = 0
        /\ Count(store_log, "save") = 1 =>
            \A k \in DOMAIN status_loaded \ DOMAIN task :
                CursorOf(status_file, k) = status_loaded[k]
        /\ RunEnded => Count(store_log, "save") = 1

\* C25: in every pipeline the message fetch of a conversation is followed
\* by the upsert of its messages; the upsert is followed by the latency
\* derivation for the same conversation exactly when it reported at least
\* one row, and otherwise by the next conversation (or the end); the
\* derivation is followed by the next conversation, the end, or its own
\* exception; a message fetch begins only after the metadata upsert (the
\* first conversation) or after the previous conversation is finished; and
\* the conversations fetched so far are the changed ones up to the current.
C25_OneConversationAtATime ==
    /\ [](\A t \in DOMAIN task :
            LET tk == task[t]
            IN /\ tk.pc = "fetch_messages" => Len(tk.fetched_for) = tk.i - 1
               /\ tk.pc \in {"upsert_messages", "calculate"} =>
                    /\ Len(tk.fetched_for) = tk.i
                    /\ tk.fetched_for[tk.i] = tk.changed[tk.i].id
               /\ tk.pc \in {"fetch_messages", "upsert_messages", "calculate"} =>
                    tk.upserted = tk.conversations)
    /\ [][\A t \in DOMAIN task :
            LET old == task[t]
                new == task'[t]
                NextUnit == IF old.i < Len(old.changed)
                            THEN new.pc = "fetch_messages" /\ new.i = old.i + 1
                            ELSE new.pc = "close"
            IN /\ (old.pc = "fetch_messages" /\ new # old) =>
                    new.pc = "upsert_messages" /\ new.i = old.i
               /\ (old.pc = "upsert_messages" /\ new # old) =>
                    /\ new.pc = "calculate" <=> new.result.messages > old.result.messages
                    /\ new.pc = "calculate" => new.i = old.i
                    /\ new.pc # "calculate" => NextUnit
               /\ (old.pc = "calculate" /\ new # old) =>
                    new.pc = "raised" \/ NextUnit
               /\ (new.pc = "fetch_messages" /\ old.pc # "fetch_messages") =>
                    \/ old.pc = "upsert_conversations" /\ new.i = 1
                    \/ old.pc \in {"upsert_messages", "calculate"} /\ new.i = old.i + 1
               /\ (new.pc = "calculate" /\ old.pc # "calculate") =>
                    old.pc = "upsert_messages"
         ]_vars

\* A pipeline is deriving latencies for its second conversation after it
\* stored no message for the first and went on without a derivation.
C25_Witness ==
    \E t \in DOMAIN task :
        /\ task[t].pc = "calculate"
        /\ task[t].i = 2
        /\ task[t].fetched_for = <<"c1", "c2">>
        /\ task[t].result.messages = 1
        /\ task[t].result.conversations = 2

\* C28: for every page name main() has looked up in the loaded credential
\* map, find_page_token returned (it did not end in a RecursionError, and
\* main() is never ended by one), and it returned None when no key and no
\* entry's page_name matches the name.
C28_LookupTerminates ==
    /\ mainPc # "raised_in_prepare"
    /\ \A i \in DOMAIN db_pages :
        (i < prep_i /\ IsCore(db_pages[i][2])) =>
            LET page_name == db_pages[i][2]
                found == find_page_token(tokens_file, page_name)
            IN /\ found.t # "RecursionError"
               /\ FirstMatch(tokens_file, Strip(Lower(page_name))) = 0 => IsNone(found)

\* C29: a pipeline whose conversation-list fetch failed has returned, with
\* 0 conversations, 0 skipped and 0 messages in its result record; the step
\* in which the fetch failed changes neither table; and from then on the
\* pipeline takes no step at all (it opens no connection, upserts nothing,
\* fetches no messages, derives no latency).
C29_FetchErrorTouchesNothing ==
    /\ [](\A t \in DOMAIN task :
            task[t].fetch_outcome = "failed" =>
                /\ task[t].pc = "returned"
                /\ task[t].result.conversations = 0
                /\ task[t].result.conversations_skipped = 0
                /\ task[t].result.messages = 0)
    /\ [][\A t \in DOMAIN task :
            /\ (task[t].pc = "fetch_conversations" /\ task'[t].fetch_outcome = "failed") =>
                    convTable' = convTable /\ msgTable' = msgTable
            /\ task[t].fetch_outcome = "failed" =>
                    [task'[t] EXCEPT !.yielded = task[t].yielded] = task[t]
         ]_vars

\* The run is over; the conversation fetch of a page had failed on its
\* second request, after a page with a conversation, and no table holds a row.
C29_Witness ==
    /\ mainPc = "done"
    /\ \E t \in DOMAIN task :
        /\ task[t].fetch_outcome = "failed"
        /\ requests[t] = 2
        /\ task[t].pc = "returned"
    /\ convTable = EmptyTable
    /\ msgTable = EmptyTable

\* C30: in a pipeline at its end whose conversation fetch succeeded, the
\* conversations whose messages were fetched are the changed ones, and
\* conversations_skipped plus their number is the number of fetched
\* conversations; and after a conversation batch write that succeeded,
\* conversations_skipped is at most the reported conversations count.
C30_ClassifiedExactlyOnce ==
    /\ [](\A t \in DOMAIN task :
            (task[t].pc = "close" /\ task[t].fetch_outcome = "ok") =>
                /\ Len(task[t].fetched_for) = Len(task[t].changed)
                /\ task[t].result.conversations_skipped + Len(task[t].fetched_for)
                        = Len(task[t].conversations)
                /\ task[t].result.conversations_skipped >= 0)
    /\ [][\A t \in DOMAIN task :
            ( /\ task[t].pc = "upsert_conversations"
              /\ task'[t].pc # "upsert_conversations"
              /\ ~task'[t].write_failed )
            => /\ task'[t].result.conversations = Len(task[t].conversations)
               /\ task'[t].result.conversations_skipped <= task'[t].result.conversations
         ]_vars

\* A pipeline at its end that fetched two conversations and wrote both:
\* one was stored with the same timestamp and skipped, the other was new
\* and its messages were fetched.
C30_Witness ==
    \E t \in DOMAIN task :
        /\ task[t].pc = "close"
        /\ task[t].fetch_outcome = "ok"
        /\ ~task[t].write_failed
        /\ Len(task[t].conversations) = 2
        /\ task[t].result.conversations = 2
        /\ task[t].result.conversations_skipped = 1
        /\ task[t].fetched_for = <<"c2">>

(***************************************************************************)
(* Properties of the worker pool, checked under SpecPool.                  *)
(***************************************************************************)
ExecutingNow == {t \in DOMAIN task : Executing(task[t])}

\* C16: at every moment at most MAX_WORKERS pipelines are executing; a
\* queued pipeline is started only in a step that begins with fewer than
\* MAX_WORKERS executing; a pipeline once started is never started again;
\* and once the pages are dispatched every pipeline is eventually finished.
C16_BoundedPool ==
    /\ [](Cardinality(ExecutingNow) <= MAX_WORKERS)
    /\ [][\A t \in DOMAIN task :
            /\ (task[t].pc = "queued" /\ task'[t].pc # "queued") =>
                    Cardinality(ExecutingNow) < MAX_WORKERS
            /\ task[t].pc # "queued" => task'[t].pc # "queued"]_vars
    /\ (DOMAIN task # {}) ~> (\A t \in DOMAIN task : Finished(task[t]))

\* MAX_WORKERS pipelines are executing and one more page is waiting.
C16_Witness ==
    /\ Cardinality(ExecutingNow) = MAX_WORKERS
    /\ \E t \in DOMAIN task : task[t].pc = "queued"
    /\ Cardinality(DOMAIN task) > MAX_WORKERS

(***************************************************************************)
(* Properties of the rate limiter, checked under SpecPacing.               *)
(***************************************************************************)
\* C15: for every worker, any N consecutive returns of wait() span at least
\* (N - 1) times the minimum interval.
C15_Pacing ==
    \A w \in DOMAIN waiters :
        \A i, j \in DOMAIN waiters[w].passes :
            i < j =>
                waiters[w].passes[j] - waiters[w].passes[i] >= (j - i) * min_interval

\* A worker has passed three times, each time as early as it could.
C15_Witness ==
    \E w \in DOMAIN waiters :
        /\ Len(waiters[w].passes) = 3
        /\ waiters[w].passes[3] - waiters[w].passes[1] = 2 * min_interval

\* C22: a worker whose own sleep is over can return from wait() at once,
\* however recently another worker returned: the limiter spaces the calls
\* of one worker and keeps no shared budget, so requests of different
\* workers can be less than the minimum interval apart.
C22_PerCallSpacer ==
    \A w \in DOMAIN waiters :
        (waiters[w].pc = "sleeping" /\ time_now >= waiters[w].wake) =>
            ENABLED WaitLeave(w)

\* Two workers have each returned three times, every time at the same
\* moment as the other: six requests in the time one stream needs for three.
C22_Witness ==
    \E w, u \in DOMAIN waiters :
        /\ w # u
        /\ Len(waiters[w].passes) = 3
        /\ waiters[u].passes = waiters[w].passes
        /\ waiters[w].passes[3] - waiters[w].passes[1] < 5 * min_interval
        /\ call_count = 6

(***************************************************************************)
(* Properties of the storage functions, checked under SpecStore.           *)
(***************************************************************************)
Latency(table, m) == table[m].response_time_seconds

\* The anchor the scan holds when it reaches position i: the message_time
\* of the latest user message before i, None when there is none.
AnchorAt(table, order, i) ==
    LET users == {j \in 1..(i - 1) : ~table[order[j]].is_from_page}
    IN IF users = {} THEN PyNone
       ELSE table[order[CHOOSE j \in users : \A k \in users : k <= j]].message_time

\* What the claim gives the message at position i: its time minus the
\* anchor when it is a reply, an anchor is set and the difference is
\* strictly positive; otherwise what was stored.
ClaimedLatency(table, order, i) ==
    LET row == table[order[i]]
        anchor == AnchorAt(table, order, i)
    IN IF /\ row.is_from_page
          /\ ~IsNone(anchor)
          /\ ~IsNone(row.message_time)
          /\ row.message_time.v - anchor.v > 0
       THEN PyInt(row.message_time.v - anchor.v)
       ELSE row.response_time_seconds

ExampleIds == <<"x1", "x2", "x3", "x4", "x5">>
ExampleLatencies == <<PyNone, PyInt(5), PyInt(9), PyNone, PyInt(5)>>

\* C7: for every stored message set and every order in which the rows can
\* be read in ascending message_time, calculate_response_times changes only
\* latencies, gives each reply the difference to the latest earlier user
\* message when that is strictly positive (a reply never clears or moves the
\* anchor), and on [in@0, out@5, out@9, in@20, out@25], freshly stored,
\* yields [null, 5, 9, null, 5].
C7_LatencyDerivation ==
    /\ \A order \in ReadOrders(msgTable, DrivenConversation) :
        LET after == calculate_response_times(msgTable, order)
        IN /\ DOMAIN after = DOMAIN msgTable
           /\ \A i \in 1..Len(order) :
                after[order[i]] =
                    [msgTable[order[i]] EXCEPT
                        !.response_time_seconds = ClaimedLatency(msgTable, order, i)]
    /\ (/\ Range(ExampleIds) \subseteq DOMAIN msgTable
        /\ \A m \in Range(ExampleIds) : IsNone(Latency(msgTable, m)))
       => \A order \in ReadOrders(msgTable, "cx") :
            \A i \in 1..5 :
                Latency(calculate_response_times(msgTable, order), ExampleIds[i])
                    = ExampleLatencies[i]

\* The derivation has run over the stored example and left [null, 5, 9, null, 5].
C7_Witness ==
    /\ last_call.fn = "calculate_response_times"
    /\ last_call.conv = "cx"
    /\ Range(ExampleIds) \subseteq DOMAIN msgTable
    /\ \A i \in 1..5 : Latency(msgTable, ExampleIds[i]) = ExampleLatencies[i]

\* C8: (stated for the states a derivation pass has just left, which the
\* claim covers) a message of the conversation has a latency only if it is a
\* reply, the latency is strictly positive, and the conversation holds a user
\* message with a strictly earlier time.
C8_LatencyOnlyAfterInbound ==
    last_call.fn = "calculate_response_times" =>
        \A m \in MessagesOf(msgTable, last_call.conv) :
            ~IsNone(Latency(msgTable, m)) =>
                /\ msgTable[m].is_from_page
                /\ Latency(msgTable, m).v > 0
                /\ \E u \in MessagesOf(msgTable, last_call.conv) :
                    /\ ~msgTable[u].is_from_page
                    /\ ~IsNone(msgTable[u].message_time)
                    /\ ~IsNone(msgTable[m].message_time)
                    /\ msgTable[u].message_time.v < msgTable[m].message_time.v

\* C9: over one stored message set, every run of calculate_response_times
\* yields the same stored latencies whatever order the rows of equal
\* message_time are read in, and after one run a second run changes nothing.
C9_DerivationDeterministic ==
    /\ \A o1, o2 \in ReadOrders(msgTable, DrivenConversation) :
        calculate_response_times(msgTable, o1) = calculate_response_times(msgTable, o2)
    /\ last_call.fn = "calculate_response_times" =>
        \A o \in ReadOrders(msgTable, DrivenConversation) :
            calculate_response_times(msgTable, o) = msgTable

\* C10: in every stored state, once a fetched batch has been applied by
\* upsert_conversations or upsert_messages, applying the same batch again
\* (whether that second write is committed or fails) leaves every row and
\* every field as the first application left them.
C10_UpsertIdempotent ==
    /\ \A batch \in ConversationBatches, dbOk \in BOOLEAN :
        LET once == upsert_conversations(convTable, "p1", batch, TRUE)
        IN upsert_conversations(once.table, "p1", batch, dbOk).table = once.table
    /\ \A batch \in DrivenBatches, dbOk \in BOOLEAN :
        LET once == upsert_messages(msgTable, "p1", DrivenConversation, batch, TRUE)
        IN upsert_messages(once.table, "p1", DrivenConversation, batch, dbOk).table
              = once.table

\* A batch was written a second time: the call reported its rows as
\* written and the stored, non-empty conversation is as it was.
C10_Witness ==
    /\ last_call.fn = "upsert_conversations"
    /\ last_call.ret = MaxBatch
    /\ ~last_call.changed
    /\ \E c \in DOMAIN convTable : convTable[c].message_count > 0

\* The keys of a fetched batch.
BatchIds(batch) == {batch[i].id : i \in DOMAIN batch}

\* C11: in every stored state, an upsert of any batch, under any page and
\* conversation, keeps every stored row; of a stored row it leaves page_id,
\* participant_id (conversations) and conversation_id, page_id, sender_id,
\* is_from_page and response_time_seconds (messages) as they were; and it
\* leaves every row whose key is not in the batch as it was.
C11_UpsertFrame ==
    /\ \A batch \in ConversationBatches, page \in {"p1", "p2"}, dbOk \in BOOLEAN :
        LET after == upsert_conversations(convTable, page, batch, dbOk).table
        IN \A c \in DOMAIN convTable :
            /\ c \in DOMAIN after
            /\ after[c].page_id = convTable[c].page_id
            /\ after[c].participant_id = convTable[c].participant_id
            /\ c \notin BatchIds(batch) => after[c] = convTable[c]
    /\ \A batch \in DrivenBatches, page \in {"p1", "p2"},
          conv \in {DrivenConversation, "c9"}, dbOk \in BOOLEAN :
        LET after == upsert_messages(msgTable, page, conv, batch, dbOk).table
        IN \A m \in DOMAIN msgTable :
            /\ m \in DOMAIN after
            /\ after[m].conversation_id = msgTable[m].conversation_id
            /\ after[m].page_id = msgTable[m].page_id
            /\ after[m].sender_id = msgTable[m].sender_id
            /\ after[m].is_from_page = msgTable[m].is_from_page
            /\ after[m].response_time_seconds = msgTable[m].response_time_seconds
            /\ m \notin BatchIds(batch) => after[m] = msgTable[m]

\* An upsert has hit the stored conversation c1 with an object that names
\* no participant: the name was refreshed (to NULL), the stored
\* participant_id was kept.
C11_Witness ==
    /\ last_call.fn = "upsert_conversations"
    /\ last_call.changed
    /\ "c1" \in DOMAIN convTable
    /\ convTable["c1"].participant_id = PyStr("u1")
    /\ IsNone(convTable["c1"].participant_name)

(***************************************************************************)
(* Properties of the maintenance mode, checked under SpecRecalc.           *)
(***************************************************************************)
StoredConversations == {msgTable[m].conversation_id : m \in DOMAIN msgTable}

\* C19: no step of the maintenance mode issues a request, passes the rate
\* limiter, writes the cursor store or the conversations table, inserts or
\* deletes a message, or changes a message field other than
\* response_time_seconds; and when it is done it has run the derivation
\* once for every conversation that has stored messages (so the example
\* conversation, when stored, holds [null, 5, 9, null, 5]).
C19_MaintenanceFrame ==
    /\ [][ /\ requests' = requests
           /\ call_count' = call_count
           /\ waiters' = waiters
           /\ status_file' = status_file
           /\ sync_status' = sync_status
           /\ convTable' = convTable
           /\ DOMAIN msgTable' = DOMAIN msgTable
           /\ \A m \in DOMAIN msgTable :
                [msgTable'[m] EXCEPT !.response_time_seconds =
                                        msgTable[m].response_time_seconds]
                  = msgTable[m] ]_vars
    /\ [](mainPc = "recalc_done" =>
            /\ Range(recalc.done) = StoredConversations
            /\ Len(recalc.done) = Cardinality(StoredConversations)
            /\ "cx" \in StoredConversations =>
                \A i \in 1..5 : Latency(msgTable, ExampleIds[i]) = ExampleLatencies[i])

\* The maintenance mode is done with two conversations and has written
\* latencies in both.
C19_Witness ==
    /\ mainPc = "recalc_done"
    /\ Len(recalc.done) = 2
    /\ \A c \in StoredConversations :
        \E m \in DOMAIN msgTable :
            msgTable[m].conversation_id = c /\ ~IsNone(Latency(msgTable, m))

(***************************************************************************)
(* Properties of the call counter, checked under SpecCounter.              *)
(***************************************************************************)
CallsMade == [w \in DOMAIN waiters |-> waiters[w].calls]
CallsReturned == [w \in DOMAIN waiters |-> waiters[w].returns]

\* C21: the counter always equals the number of wait() calls that have
\* returned, so whenever every worker is outside wait() it equals the
\* number of wait() calls made, whatever the interleaving.
C21_NoLostUpdate ==
    /\ call_count = SumOver(CallsReturned, DOMAIN waiters)
    /\ (\A w \in DOMAIN waiters : waiters[w].pc = "out") =>
            call_count = SumOver(CallsMade, DOMAIN waiters)

\* Three workers have each made calls that slept at the same time, and all
\* have returned.
C21_Witness ==
    /\ \A w \in DOMAIN waiters : waiters[w].pc = "out" /\ waiters[w].calls >= 2
    /\ Cardinality(DOMAIN waiters) = 3
    /\ call_count >= 6

(***************************************************************************)
(* Properties of overlapping runs, checked under SpecOverlap.              *)
(***************************************************************************)
LastWriter == store_log[Len(store_log)]

\* C24: when both runs have finished and at least one has saved, the cursor
\* store is exactly the map the last writer saved: for every page without
\* an error-free result in the last writer the record is the one that run
\* loaded at its start (absent when it loaded none), whatever the other run
\* had written in between; for the other pages it is the last writer's own.
C24_LastWriterWins ==
    ((\A r \in DOMAIN runs : runs[r].pc \in {"saved", "raised"}) /\ store_log # <<>>) =>
        /\ status_file = runs[LastWriter].sync_status
        /\ DOMAIN status_file = DOMAIN runs[LastWriter].loaded \cup runs[LastWriter].ok
        /\ \A t \in DOMAIN status_file \ runs[LastWriter].ok :
                status_file[t] = runs[LastWriter].loaded[t]
        /\ \A t \in runs[LastWriter].ok :
                status_file[t] # CursorOf(runs[LastWriter].loaded, t)

\* Both runs saved; the first writer had advanced the cursor of p1, the
\* last writer had loaded before that and got an error for p1: the store
\* holds for p1 what the last writer loaded, and the advance is gone.
C24_Witness ==
    /\ Len(store_log) = 2
    /\ \A r \in DOMAIN runs : runs[r].pc = "saved"
    /\ LET first == store_log[1]
           last == store_log[2]
       IN /\ "p1" \in runs[first].ok
          /\ "p1" \in DOMAIN runs[last].loaded
          /\ "p1" \notin runs[last].ok
          /\ runs[first].sync_status["p1"] # runs[last].loaded["p1"]
          /\ status_file["p1"] = runs[last].loaded["p1"]
          /\ status_file["p1"] = OldCursor

(***************************************************************************)
(* Properties of consecutive runs, checked under SpecRerun.                *)
(***************************************************************************)
\* The pipeline of the earlier run fetched messages for a changed
\* conversation and the fetch failed, or the write of the batch failed
\* after the conversations had been written.
SwallowedFailure(tk) ==
    /\ tk.pc = "returned"
    /\ tk.msg_fetch_failed \/ (tk.write_failed /\ tk.result.conversations > 0)

\* The pipeline is at its end and nothing in it failed.
ErrorFree(tk) ==
    /\ tk.pc = "close"
    /\ tk.fetch_outcome = "ok"
    /\ ~tk.msg_fetch_failed
    /\ ~tk.write_failed

\* C26: when the pipeline of a page had a swallowed message failure in the
\* earlier run and is error-free in this run, with the same conversation
\* list fetched, it has fetched the messages of the conversation again and
\* the messages of the platform are stored.
C26_NoMessageDropped ==
    \A t \in DOMAIN task :
        ( /\ Len(previous) = 1
          /\ t \in DOMAIN previous[1]
          /\ SwallowedFailure(previous[1][t])
          /\ ErrorFree(task[t]) )
        => /\ task[t].fetched_for = <<"c1">>
           /\ {"ma", "mb"} \subseteq DOMAIN msgTable

\* C27: the since_date of a page with a stored cursor is not later than the
\* last_sync of that cursor.
C27_CursorBoundsWindow ==
    \A t \in DOMAIN task :
        Truthy(LastSyncOf(status_loaded, t)) =>
            task[t].since_date <= LastSyncOf(status_loaded, t).v

====
